---------------------------- MODULE Spec2Model ----------------------------
(*************************************************************************)
(* A model of continuum_parser.py (inigma2/Continuum):                   *)
(*   - build_galaxy_hierarchy and the sibling ordering done by           *)
(*     write_initializer_file            (specification SpecHierarchy)   *)
(*   - _get_nested_block_content         (specification SpecExtract)     *)
(*   - parse_keyed_section               (specification SpecSection)     *)
(* Every specification drives its own group of variables and leaves the  *)
(* other groups at their idle values.                                    *)
(*************************************************************************)
EXTENDS Integers, Sequences, FiniteSets, TLC

VARIABLES
  \* ---- build_galaxy_hierarchy / write_initializer_file ----
  stars,                \* star id -> its planet_ids list
  planets,              \* planet id -> the (shared, mutable) body dict
  centers,              \* star id -> the system_center dict built for it
  hierarchical_systems, \* the list build_galaxy_hierarchy returns
  output,               \* what the functions printed, in order
  star_pos,             \* position of the for loop over stars.items()
  write_pos,            \* position of the for loop over systems_list
  emitted,              \* per system: the sorted() results, in order
  wpc,                  \* write_initializer_file: "run" | "hung" | "idle"
  \* ---- _get_nested_block_content ----
  text, start_regex, start_index, ret, xpc,
  \* ---- parse_keyed_section ----
  lines,                \* the line iterator's content
  pos,                  \* number of lines consumed from the iterator
  objects,              \* the map under construction
  object_id, block_lines, brace_level,
  spc,                  \* "outer" | "inner" | "done" (return on line 435) |
                        \* "exhausted" (return on line 451) | "idle"
  layout,               \* how the section text was composed (ghost)
  spans,                \* the lines each stored record was built from (ghost)
  \* ---- parse_stellaris_save, the wormhole pairing (lines 481-499) ----
  bypasses,             \* the dict of bypass records, in insertion order
  natural_wormholes,    \* the natural wormhole records, in insertion order
  bypass_to_system_map, \* bypass id -> origin system id
  wormhole_pairs,       \* the list of pairs
  processed_bypasses,   \* the set of bypass ids already handled
  pair_ends,            \* per pair: the two bypass ids it was made for (ghost)
  bypass_pos,           \* position of the for loop over bypasses.items()
  ppc,                  \* "map" | "pair" | "done" | "idle"
  \* ---- main and write_initializer_file, the megastructures ----
  parsed_megastructures,    \* the list parse_stellaris_save returned
  planet_bound_megas,       \* main's list, as places in parsed_megastructures
  attached_mega,            \* per planet: the place of its 'attached_mega', 0 if none
  mega_output,              \* what main printed in the loop
  megastructures_by_system, \* write_initializer_file's dict of lists
  mega_pos,                 \* position of main's loop over parsed_megastructures
  mpc,                      \* "attach" | "group" | "done" | "hung" | "idle"
  \* ---- parse_stellaris_save, the loop over the file (lines 458-480) ----
  save_result,          \* per section marker: the map assigned on lines 469-470
  section,              \* the marker of the section being scanned
  gpc,                  \* "scan" | "section" | "returned" (line 512) |
                        \* "aborted" (line 480) | "idle"
  file,                 \* how the file was composed (ghost)
  \* ---- resolve_name ----
  template,             \* name_block_content of the outermost call
  loc_data,             \* the localization table
  star_count_context,   \* of the outermost call
  parent_body_name,     \* of the outermost call
  frames,               \* the texts of the calls in progress, outermost first
  resolved,             \* the string the last finished call returned
  rpc,                  \* "call" | "return" | "done" | "idle"
  \* ---- build_galaxy_hierarchy, the names (lines 309-310, 320, 349-357) ----
  raw_name_block,       \* of each star record and of each body
  planet_class,         \* of each body
  names,                \* the 'name' of each system and of each body
  coordinate,           \* the 'x' and 'y' texts of each body
  hpc,                  \* build_galaxy_hierarchy: "run" | "raised" (ValueError)
  \* ---- parse_stellaris_save, the megastructure list (lines 501-505) ----
  megastructures_raw,   \* the values of the scanned map, in insertion order
  counts,               \* the counts returned with the list
  fpc,                  \* "filter" | "done" | "idle"
  \* ---- parse_block_content, the asteroid belts (lines 376-389) ----
  belt_block_content,   \* the content of the asteroid_belts block
  belts_data,           \* the list of descriptors
  bpc,                  \* "parse" | "done" | "idle"
  \* ---- write_map_file, the wormhole flags (lines 520-524) ----
  wormhole_flags_by_system, \* system id -> index of the flag
  flag_pos,             \* position of the loop over enumerate(wormhole_pairs)
  kpc,                  \* "flags" | "done" | "idle"
  \* ---- main, lines 1056-1064, and find_body_in_system, for one system ----
  children_of,          \* the children list of system_center and of each body
  original_planet_id,   \* the 'planet' of the megastructure
  queue,                \* find_body_in_system's queue
  host_planet,          \* what find_body_in_system returned
  with_attached_mega,   \* the dicts that carry 'attached_mega'
  apc                   \* "test" | "find" | "found" | "warned" | "done" | "idle"

hvars == <<stars, planets, centers, hierarchical_systems, output, star_pos,
           write_pos, emitted, wpc>>
xvars == <<text, start_regex, start_index, ret, xpc>>
svars == <<lines, pos, objects, object_id, block_lines, brace_level, spc, layout, spans>>
wvars == <<bypasses, natural_wormholes, bypass_to_system_map, wormhole_pairs,
           processed_bypasses, pair_ends, bypass_pos, ppc>>
mvars == <<parsed_megastructures, planet_bound_megas, attached_mega, mega_output,
           megastructures_by_system, mega_pos, mpc>>
gvars == <<save_result, section, gpc, file>>
rvars == <<template, loc_data, star_count_context, parent_body_name, frames, resolved,
           rpc>>
nvars == <<raw_name_block, planet_class, names, coordinate, hpc>>
fvars == <<megastructures_raw, counts, fpc>>
bvars == <<belt_block_content, belts_data, bpc>>
kvars == <<wormhole_flags_by_system, flag_pos, kpc>>
avars == <<children_of, original_planet_id, queue, host_planet, with_attached_mega, apc>>
vars  == <<hvars, xvars, svars, wvars, mvars, gvars, rvars, nvars, fvars, bvars, kvars, avars>>

\* what the actions of one group leave alone
notHier    == <<xvars, svars, wvars, mvars, gvars, rvars,
               fvars, bvars, kvars, avars>>
notExtract == <<hvars, svars, wvars, mvars, gvars, rvars, nvars,
               fvars, bvars, kvars, avars>>
notSection == <<hvars, xvars, wvars, mvars, gvars, rvars, nvars,
               fvars, bvars, kvars, avars>>
notPairing == <<hvars, xvars, svars, mvars, gvars, rvars, nvars,
               fvars, bvars, kvars, avars>>
notMega    == <<hvars, xvars, svars, wvars, gvars, rvars, nvars,
               fvars, bvars, kvars, avars>>
notSave    == <<hvars, xvars, wvars, mvars, rvars, nvars,
               fvars, bvars, kvars, avars>>
notResolve == <<hvars, xvars, svars, wvars, mvars, gvars, nvars,
               fvars, bvars, kvars, avars>>
notFind    == <<hvars, xvars, svars, wvars, mvars, gvars, rvars, nvars, fvars, bvars, kvars>>
notMap     == <<hvars, xvars, svars, wvars, mvars, gvars, rvars, nvars, fvars, bvars, avars>>

--------------------------------------------------------------------------
(* Generic helpers on sequences *)

Range(s) == {s[i] : i \in 1..Len(s)}

RECURSIVE SeqsUpTo(_, _)
\* all sequences over S of length at most n
SeqsUpTo(S, n) ==
  IF n = 0 THEN {<<>>}
  ELSE LET shorter == SeqsUpTo(S, n - 1)
       IN  shorter \cup {Append(q, e) : q \in {r \in shorter : Len(r) = n - 1}, e \in S}

Distinct(s) == \A i, j \in 1..Len(s) : i # j => s[i] # s[j]

Occurrences(s, e) == Cardinality({i \in 1..Len(s) : s[i] = e})

--------------------------------------------------------------------------
(* Inputs of build_galaxy_hierarchy *)

PlanetIds == {1, 2, 3}          \* keys of the planets map
StarIds   == {1, 2}             \* keys of the stars map, in file order
MissingIds == {9}               \* ids that are no key of the planets map
NoRef     == 0                  \* the body dict has no 'moon_of' key
NoLevel   == -1                 \* the body dict has no 'nesting_level' key
MaxPlanetIds == 3               \* longest planet_ids list of the first star
MaxSharedIds == 2               \* longest planet_ids list of the second star

\* absolute coordinates of the three planets; two layouts, one with a tie
\* in distance from the system center between planets 2 and 3
Layouts ==
  { [p \in PlanetIds |-> CASE p = 1 -> <<2, 0>> [] p = 2 -> <<0, 1>> [] OTHER -> <<1, 0>>],
    [p \in PlanetIds |-> CASE p = 1 -> <<1, 1>> [] p = 2 -> <<2, 0>> [] OTHER -> <<0, -1>>] }

NoName    == <<>>               \* no 'name' key, or None for a name
NoBlock   == <<"none">>         \* no 'raw_name_block' key

NoParent       == [kind |-> "none",   id |-> 0]   \* body['parent'] = None
UnsetParent    == [kind |-> "unset",  id |-> 0]   \* no 'parent' key yet
BodyRef(p)     == [kind |-> "body",   id |-> p]   \* a reference to planets[p]
CenterRef(s)   == [kind |-> "center", id |-> s]   \* the system_center of star s

\* a coordinate text float() converts: the abs_x or abs_y of the body
Number == "number"

\* lines 317-318: float(text) returns; the pattern [-\d\.]+ of line 371
\* also takes texts float() raises ValueError for
IsFloat(coordinate_text) == coordinate_text \notin {"-", "1.2.3"}

\* records without names, with coordinates that are numbers
NamesIdle ==
  /\ coordinate = [p \in PlanetIds |-> [x |-> Number, y |-> Number]]
  /\ hpc = "run"
  /\ raw_name_block = [system |-> [s \in StarIds |-> NoBlock],
                       body   |-> [p \in PlanetIds |-> NoBlock]]
  /\ planet_class = [p \in PlanetIds |-> ""]
  /\ names = [system |-> [s \in StarIds |-> NoName], body |-> [p \in PlanetIds |-> NoName]]

HierInit ==
  /\ \E mo \in [PlanetIds -> {NoRef} \cup MissingIds \cup PlanetIds], xy \in Layouts :
       planets = [p \in PlanetIds |->
                    [moon_of |-> mo[p], abs_x |-> xy[p][1], abs_y |-> xy[p][2],
                     children |-> <<>>, parent |-> UnsetParent,
                     nesting_level |-> NoLevel]]
  /\ \E l1 \in {q \in SeqsUpTo(PlanetIds, MaxPlanetIds) : Distinct(q)},
        l2 \in {q \in SeqsUpTo(PlanetIds \cup MissingIds, MaxSharedIds) : Distinct(q)} :
       stars = [s \in StarIds |-> IF s = 1 THEN l1 ELSE l2]
  /\ centers = [s \in StarIds |-> [children |-> <<>>, nesting_level |-> NoLevel]]
  /\ hierarchical_systems = <<>>
  /\ output = <<>>
  /\ star_pos = 1
  /\ write_pos = 1
  /\ emitted = [s \in StarIds |-> <<>>]
  /\ wpc = "run"
  /\ NamesIdle

HierIdle ==
  /\ stars = [s \in StarIds |-> <<>>]
  /\ planets = [p \in PlanetIds |->
                  [moon_of |-> NoRef, abs_x |-> 0, abs_y |-> 0, children |-> <<>>,
                   parent |-> UnsetParent, nesting_level |-> NoLevel]]
  /\ centers = [s \in StarIds |-> [children |-> <<>>, nesting_level |-> NoLevel]]
  /\ hierarchical_systems = <<>>
  /\ output = <<>>
  /\ star_pos = 0
  /\ write_pos = 0
  /\ emitted = [s \in StarIds |-> <<>>]
  /\ wpc = "idle"
  /\ NamesIdle

--------------------------------------------------------------------------
(* build_galaxy_hierarchy, one iteration of its loop over stars.items() *)

\* all_bodies_in_system_map as Python iterates it: the keys in the order of
\* their first insertion (lines 312-321); ids that are no key of planets are
\* skipped by the test on line 314
RECURSIVE BodyMapOrder(_, _)
BodyMapOrder(ids, seen) ==
  IF ids = <<>> THEN <<>>
  ELSE IF Head(ids) \in DOMAIN planets /\ Head(ids) \notin seen
       THEN <<Head(ids)>> \o BodyMapOrder(Tail(ids), seen \cup {Head(ids)})
       ELSE BodyMapOrder(Tail(ids), seen)

\* lines 315-321: every listed body gets an empty children list and no parent
CollectBodies(pl, order) ==
  [p \in DOMAIN pl |->
     IF p \in Range(order)
     THEN [pl[p] EXCEPT !.children = <<>>, !.parent = NoParent]
     ELSE pl[p]]

\* the lookup done in the planets map of the whole save instead
ParentInPlanets(parent_id, order) == parent_id \in DOMAIN planets

\* line 329: the lookup of the moon_of id in the map of this system
ParentInMap(parent_id, order) == parent_id \in Range(order)

\* lines 327-332 for one body: append to the parent's children, set the parent
AttachMoon(pl, body_id, order) ==
  LET parent_id == pl[body_id].moon_of
  IN  IF parent_id # NoRef /\ ParentInMap(parent_id, order)
      THEN LET withChild == [pl EXCEPT ![parent_id].children = Append(@, body_id)]
           IN  [withChild EXCEPT ![body_id].parent = BodyRef(parent_id)]
      ELSE pl

\* lines 326-332: the first pass over the map
RECURSIVE MoonPass(_, _, _)
MoonPass(pl, todo, order) ==
  IF todo = <<>> THEN pl
  ELSE MoonPass(AttachMoon(pl, Head(todo), order), Tail(todo), order)

\* the second pass testing for a missing 'parent' key instead of None
NeverListed(body) == body.parent = UnsetParent

\* line 336: the test that selects the bodies of the second pass
Unparented(body) == body.parent = NoParent

\* lines 335-338: the children of system_center, in map order
RECURSIVE CenterChildren(_, _)
CenterChildren(pl, todo) ==
  IF todo = <<>> THEN <<>>
  ELSE IF Unparented(pl[Head(todo)])
       THEN <<Head(todo)>> \o CenterChildren(pl, Tail(todo))
       ELSE CenterChildren(pl, Tail(todo))

\* lines 335-338: the parent links set by the second pass
CenterPass(pl, order, s) ==
  [p \in DOMAIN pl |->
     IF p \in Range(order) /\ Unparented(pl[p])
     THEN [pl[p] EXCEPT !.parent = CenterRef(s)]
     ELSE pl[p]]

\* line 345: the level the traversal starts with
RootLevel == 0

\* lines 340-343 applied to a list of children: depth-first, each child gets
\* the level and its own children the level + 1
RECURSIVE SetNestingLevels(_, _, _)
SetNestingLevels(pl, todo, level) ==
  IF todo = <<>> THEN pl
  ELSE LET b    == Head(todo)
           here == [pl EXCEPT ![b].nesting_level = level]
           deep == SetNestingLevels(here, here[b].children, level + 1)
       IN  SetNestingLevels(deep, Tail(todo), level)

--------------------------------------------------------------------------
(* write_initializer_file: the order in which the bodies of a system are  *)
(* written.  Coordinates are integers here and sqrt is monotonic, so the  *)
(* sort key is compared through its square.  Every layout stays below the *)
(* radius 590 of line 656, so scale_factor is 1.0 and no coordinate is    *)
(* rescaled.                                                              *)

\* abs_x, abs_y of the dict a reference points to (line 323 for the center)
RefX(pl, ref) == IF ref.kind = "body" THEN pl[ref.id].abs_x ELSE 0
RefY(pl, ref) == IF ref.kind = "body" THEN pl[ref.id].abs_y ELSE 0

\* lines 577-579: the square of _calculate_orbit_params(body, parent)['distance']
DistanceSq(pl, b, ref) ==
  LET rel_x == pl[b].abs_x - RefX(pl, ref)
      rel_y == pl[b].abs_y - RefY(pl, ref)
  IN  rel_x * rel_x + rel_y * rel_y

\* line 580: the order of _calculate_orbit_params(...)['angle'] =
\* degrees(atan2(-rel_y, -rel_x)) on integer-valued floats.  rel_y = 0.0
\* negates to -0.0, for which atan2 gives -180 when -rel_x <= 0 and -0.0
\* when -rel_x > 0.
AngleGroup(u, v) ==
  IF v = 0 THEN (IF u <= 0 THEN 0 ELSE 2) ELSE (IF v < 0 THEN 1 ELSE 3)

AngleLess(pl, b1, b2, ref) ==
  LET u1 == -(pl[b1].abs_x - RefX(pl, ref))
      v1 == -(pl[b1].abs_y - RefY(pl, ref))
      u2 == -(pl[b2].abs_x - RefX(pl, ref))
      v2 == -(pl[b2].abs_y - RefY(pl, ref))
  IN  \/ AngleGroup(u1, v1) < AngleGroup(u2, v2)
      \/ /\ AngleGroup(u1, v1) = AngleGroup(u2, v2)
         /\ v1 # 0
         /\ u1 * v2 - v1 * u2 > 0

\* Python's sorted() is stable: an element goes behind every element whose
\* key is not greater (lines 664, 694, 719)
RECURSIVE InsertByDistance(_, _, _, _)
InsertByDistance(pl, done, b, ref) ==
  IF done = <<>> THEN <<b>>
  ELSE IF DistanceSq(pl, b, ref) < DistanceSq(pl, Head(done), ref)
       THEN <<b>> \o done
       ELSE <<Head(done)>> \o InsertByDistance(pl, Tail(done), b, ref)

RECURSIVE SortInto(_, _, _, _)
SortInto(pl, done, todo, ref) ==
  IF todo = <<>> THEN done
  ELSE SortInto(pl, InsertByDistance(pl, done, Head(todo), ref), Tail(todo), ref)

\* the children list written as it is, without sorted()
InListOrder(pl, kids, ref) == kids

\* lines 664, 694, 719: sorted(children, key = distance from the parent)
SortedByDistance(pl, kids, ref) == SortInto(pl, <<>>, kids, ref)

\* the deepest level write_initializer_file writes (body_l3, lines 719-743)
MaxWrittenLevel == 3

\* lines 664-749: the sorted() calls of one system in execution order, each
\* with the parent, the children list it was given and the order it returned
RECURSIVE EmitLevel(_, _, _, _)
RECURSIVE EmitEach(_, _, _)
EmitLevel(pl, ref, kids, level) ==
  LET order == SortedByDistance(pl, kids, ref)
  IN  <<[parent |-> ref, given |-> kids, order |-> order]>>
        \o (IF level < MaxWrittenLevel THEN EmitEach(pl, order, level + 1) ELSE <<>>)
EmitEach(pl, bodies, level) ==
  IF bodies = <<>> THEN <<>>
  ELSE EmitLevel(pl, BodyRef(Head(bodies)), pl[Head(bodies)].children, level)
         \o EmitEach(pl, Tail(bodies), level)

\* the bodies a traversal over children lists reaches from a set of bodies
ChildrenOf(pl, S) == UNION {Range(pl[p].children) : p \in S}
RECURSIVE Closure(_, _)
Closure(pl, S) ==
  IF ChildrenOf(pl, S) \subseteq S THEN S ELSE Closure(pl, S \cup ChildrenOf(pl, S))

\* lines 644-648: the queue of the breadth-first walk never empties when a
\* body reachable from hierarchy_root is reachable from itself
WalkDiverges(pl, kids) ==
  \E b \in Closure(pl, Range(kids)) : b \in Closure(pl, ChildrenOf(pl, {b}))

\* lines 624-788 for the system at write_pos
WriteSystem ==
  /\ wpc = "run"
  /\ star_pos \notin StarIds
  /\ write_pos \in 1..Len(hierarchical_systems)
  /\ LET s == hierarchical_systems[write_pos]
     IN  IF WalkDiverges(planets, centers[s].children)
         THEN /\ wpc' = "hung"
              /\ UNCHANGED <<emitted, write_pos>>
         ELSE /\ emitted' = [emitted EXCEPT ![s] =
                               EmitLevel(planets, CenterRef(s), centers[s].children, 1)]
              /\ write_pos' = write_pos + 1
              /\ wpc' = wpc
  /\ UNCHANGED <<stars, planets, centers, hierarchical_systems, output, star_pos,
                 notHier, nvars>>

--------------------------------------------------------------------------
(* _get_nested_block_content(text, start_regex, start_index).  A text is a *)
(* sequence of characters, offsets are Python's (the first character has   *)
(* offset 0).  start_regex is a literal: "k" stands for a key such as      *)
(* name= and "k{" for the patterns that end in the brace themselves, such  *)
(* as variables\s*=\s*{.                                                   *)

Chars    == {"k", "{", "}", "x"}
Patterns == {<<"k">>, <<"k", "{">>}
MaxText  == 6                    \* longest text

\* text[i] for a Python offset
CharAt(t, i) == t[i + 1]

\* text[from:to] for 0 <= from
Slice(t, from, to) == SubSeq(t, from + 1, to)

\* line 106 and lines 113, 122: the three values returned for no block
NotFound == [found |-> FALSE, content |-> <<>>, span_start |-> -1, span_end |-> -1]

\* the value of match.start() for no match
NoMatch == -1

\* line 105, re.search on a literal: the offset of the leftmost occurrence
RECURSIVE ReSearch(_, _, _)
ReSearch(pat, t, off) ==
  IF off + Len(pat) > Len(t) THEN NoMatch
  ELSE IF Slice(t, off, off + Len(pat)) = pat THEN off
       ELSE ReSearch(pat, t, off + 1)

\* the offset of the match in the slice taken for the offset in the text
SliceOffset(index, rel) == rel

\* line 108: search_start = start_index + match.start()
SearchStart(index, rel) == index + rel

\* line 111, text.index('{', search_start); NoMatch stands for ValueError
RECURSIVE IndexOfBrace(_, _)
IndexOfBrace(t, from) ==
  IF from >= Len(t) THEN NoMatch
  ELSE IF CharAt(t, from) = "{" THEN from
       ELSE IndexOfBrace(t, from + 1)

\* a scan that takes the end of the text for the closing brace
RECURSIVE ScanToEnd(_, _, _)
ScanToEnd(t, i, level) ==
  IF i >= Len(t) THEN Len(t) - 1
  ELSE LET l == CASE CharAt(t, i) = "{" -> level + 1
                  [] CharAt(t, i) = "}" -> level - 1
                  [] OTHER              -> level
       IN  IF l = 0 THEN i ELSE ScanToEnd(t, i + 1, l)

\* lines 116-122: the offset i at which brace_level reaches 0, NoMatch when
\* the loop runs off the end of the text
RECURSIVE ScanBraces(_, _, _)
ScanBraces(t, i, level) ==
  IF i >= Len(t) THEN NoMatch
  ELSE LET l == CASE CharAt(t, i) = "{" -> level + 1
                  [] CharAt(t, i) = "}" -> level - 1
                  [] OTHER              -> level
       IN  IF l = 0 THEN i ELSE ScanBraces(t, i + 1, l)

\* lines 104-122
GetNestedBlockContent(t, regex, index) ==
  LET rel == ReSearch(regex, Slice(t, index, Len(t)), 0)
  IN  IF rel = NoMatch THEN NotFound
      ELSE LET search_start == SearchStart(index, rel)
               brace        == IndexOfBrace(t, search_start)
           IN  IF brace = NoMatch THEN NotFound
               ELSE LET content_start_index == brace + 1
                        i == ScanBraces(t, content_start_index, 1)
                    IN  IF i = NoMatch THEN NotFound
                        ELSE [found      |-> TRUE,
                              content    |-> Slice(t, content_start_index, i),
                              span_start |-> search_start,
                              span_end   |-> i + 1]

ExtractInit ==
  /\ text \in SeqsUpTo(Chars, MaxText)
  /\ start_regex \in Patterns
  /\ start_index \in 0..Len(text)
  /\ ret = NotFound
  /\ xpc = "call"

\* one call of the function
Extract ==
  /\ xpc = "call"
  /\ ret' = GetNestedBlockContent(text, start_regex, start_index)
  /\ xpc' = "done"
  /\ UNCHANGED <<text, start_regex, start_index, notExtract>>

--------------------------------------------------------------------------
(* parse_keyed_section(line_iterator, header_regex, block_parser_func).   *)
(* A line is what the function reads of it: the id header_regex captures  *)
(* (0: no match), its numbers of opening and closing braces, whether it   *)
(* contains "none" and whether it is a closing brace and nothing else;    *)
(* marker is the section name of a line that parse_stellaris_save takes   *)
(* for a section marker.                                                  *)

Line(h, o, c, n, b) ==
  [hdr |-> h, open |-> o, close |-> c, none |-> n, bare |-> b, marker |-> ""]

HdrSingle(i) == Line(i, 1, 1, FALSE, FALSE)     \* <tab>i={ a=1 }
HdrOpen(i)   == Line(i, 1, 0, FALSE, FALSE)     \* <tab>i={
HdrBare(i)   == Line(i, 0, 0, FALSE, FALSE)     \* <tab>i=
HdrNone(i)   == Line(i, 0, 0, TRUE,  FALSE)     \* <tab>i=none
HdrNoneSingle(i) == Line(i, 1, 1, TRUE, FALSE)  \* <tab>i={ type="none" }
HdrNoneOpen(i)   == Line(i, 1, 0, TRUE, FALSE)  \* <tab>i={ type="none"
FieldLine    == Line(0, 0, 0, FALSE, FALSE)     \* <tab><tab>a=1
OpenLine     == Line(0, 1, 0, FALSE, FALSE)     \* <tab>{   or   <tab><tab>a={
OpenClose    == Line(0, 1, 1, FALSE, FALSE)     \* <tab><tab>a={ 1 }
CloseLine    == Line(0, 0, 1, FALSE, TRUE)      \* <tab>}

RecordIds == {1, 2}             \* the ids of the records of the section
SlotIds   == {3}                \* the ids of the absent slots of the section
TailIds   == {4}                \* an id used after the end of the section
NoId      == 0                  \* header_regex.match(line) is None
MaxSectionLines == 6            \* longest line stream

\* a key that is not in the objects dict
Absent == [present |-> FALSE, id |-> NoId, block |-> <<>>]

\* lines 444 and 450: {'id': object_id, **block_parser_func("".join(block_lines))};
\* no block parser returns an 'id' key (lines 364-430), block stands for
\* the text the parser is given
ParsedEntry(id, blk) == [present |-> TRUE, id |-> id, block |-> blk]

\* a section end taken at every line that has a closing brace
HasClosingBrace(line) == line.close > 0

\* line 435: line.strip() == '}'
IsSectionEnd(line) == line.bare

\* line 436: header_regex.match(line)
IsHeader(line) == line.hdr # NoId

\* line 438: "none" in line
IsAbsentSlot(line) == line.none

\* line 442: line.count('{') - line.count('}')
BraceDelta(line) == line.open - line.close

\* line 443: brace_level <= 0 and '{' in line
IsSingleLine(line) == BraceDelta(line) <= 0 /\ line.open > 0

\* a block that ends only below depth 0
BelowZero(level) == level < 0

\* a block that ends only at depth 0
AtZero(level) == level = 0

\* line 449: if brace_level <= 0: break
BlockClosed(level) == level <= 0

\* line 434, the iterator is exhausted: the for loop ends, line 451 returns
SectionExhausted ==
  /\ spc = "outer"
  /\ pos = Len(lines)
  /\ spc' = "exhausted"
  /\ UNCHANGED <<lines, pos, objects, object_id, block_lines, brace_level, layout, spans,
                 notSection>>

\* line 435: the closing brace of the section
SectionEnd ==
  /\ spc = "outer"
  /\ pos < Len(lines)
  /\ IsSectionEnd(lines[pos + 1])
  /\ pos' = pos + 1
  /\ spc' = "done"
  /\ UNCHANGED <<lines, objects, object_id, block_lines, brace_level, layout, spans,
                 notSection>>

\* lines 436-437: a line that is no header is passed over
SkipLine ==
  /\ spc = "outer"
  /\ pos < Len(lines)
  /\ ~IsSectionEnd(lines[pos + 1])
  /\ ~IsHeader(lines[pos + 1])
  /\ pos' = pos + 1
  /\ UNCHANGED <<lines, objects, object_id, block_lines, brace_level, spc, layout, spans,
                 notSection>>

\* lines 438-439: a header line with "none" in it
SkipAbsentSlot ==
  /\ spc = "outer"
  /\ pos < Len(lines)
  /\ ~IsSectionEnd(lines[pos + 1])
  /\ IsHeader(lines[pos + 1])
  /\ IsAbsentSlot(lines[pos + 1])
  /\ pos' = pos + 1
  /\ UNCHANGED <<lines, objects, object_id, block_lines, brace_level, spc, layout, spans,
                 notSection>>

\* lines 440-445: a header line that holds the whole record
SingleLineRecord ==
  /\ spc = "outer"
  /\ pos < Len(lines)
  /\ LET line == lines[pos + 1]
     IN  /\ ~IsSectionEnd(line)
         /\ IsHeader(line)
         /\ ~IsAbsentSlot(line)
         /\ IsSingleLine(line)
         /\ object_id' = line.hdr
         /\ block_lines' = <<line>>
         /\ brace_level' = BraceDelta(line)
         /\ objects' = [objects EXCEPT ![line.hdr] = ParsedEntry(line.hdr, <<line>>)]
         /\ spans' = Append(spans, [id |-> line.hdr, from |-> pos + 1, to |-> pos + 1])
  /\ pos' = pos + 1
  /\ UNCHANGED <<lines, spc, layout, notSection>>

\* lines 440-443 and 446: a header line whose record goes on
StartBlock ==
  /\ spc = "outer"
  /\ pos < Len(lines)
  /\ LET line == lines[pos + 1]
     IN  /\ ~IsSectionEnd(line)
         /\ IsHeader(line)
         /\ ~IsAbsentSlot(line)
         /\ ~IsSingleLine(line)
         /\ object_id' = line.hdr
         /\ block_lines' = <<line>>
         /\ brace_level' = BraceDelta(line)
  /\ pos' = pos + 1
  /\ spc' = "inner"
  /\ UNCHANGED <<lines, objects, layout, spans, notSection>>

\* lines 446-450: one line of the inner loop; at depth <= 0 it breaks and
\* the record is stored
BlockLine ==
  /\ spc = "inner"
  /\ pos < Len(lines)
  /\ LET block_line == lines[pos + 1]
         level      == brace_level + block_line.open - block_line.close
         blk        == Append(block_lines, block_line)
     IN  /\ block_lines' = blk
         /\ brace_level' = level
         /\ IF BlockClosed(level)
            THEN /\ objects' = [objects EXCEPT ![object_id] = ParsedEntry(object_id, blk)]
                 /\ spans' = Append(spans, [id |-> object_id, from |-> pos + 1 - Len(block_lines),
                                            to |-> pos + 1])
                 /\ spc' = "outer"
            ELSE UNCHANGED <<objects, spc, spans>>
  /\ pos' = pos + 1
  /\ UNCHANGED <<lines, object_id, layout, notSection>>

\* lines 446 and 450: the iterator is exhausted inside a record, the inner
\* loop ends and what was read is stored
BlockExhausted ==
  /\ spc = "inner"
  /\ pos = Len(lines)
  /\ objects' = [objects EXCEPT ![object_id] = ParsedEntry(object_id, block_lines)]
  /\ spans' = Append(spans, [id |-> object_id, from |-> pos + 1 - Len(block_lines), to |-> pos])
  /\ spc' = "outer"
  /\ UNCHANGED <<lines, pos, object_id, block_lines, brace_level, layout, notSection>>

--------------------------------------------------------------------------
(* The line streams: a section is a run of items (well-formed records,   *)
(* absent slots, lines between records), then its closing brace and what *)
(* follows it in the file.  A stream may also end early, in the middle   *)
(* of the last record of a section that was never closed.                *)

BodyLines == {FieldLine, OpenLine, OpenClose, CloseLine}

Depth(ls, k) ==
  LET RECURSIVE Sum(_)
      Sum(j) == IF j = 0 THEN 0 ELSE Sum(j - 1) + ls[j].open - ls[j].close
  IN  Sum(k)

\* a record of the save format: a header line for id i; the record's
\* opening brace is on the header line or on the line after it; the record
\* ends on the line that closes that brace
WellFormedRecord(ls, i) ==
  /\ Len(ls) >= 1
  /\ ls[1] \in {HdrSingle(i), HdrOpen(i), HdrBare(i)}
  /\ \A k \in 2..Len(ls) : ls[k] \in BodyLines
  /\ ls[1] = HdrBare(i) => (Len(ls) >= 2 /\ ls[2].open > 0)
  /\ \A k \in 1..(Len(ls) - 1) : (k >= 2 \/ ls[1] # HdrBare(i)) => Depth(ls, k) > 0
  /\ Depth(ls, Len(ls)) = 0

RecordsOf(i, n) ==
  {ls \in {<<h>> \o b : h \in {HdrSingle(i), HdrOpen(i), HdrBare(i)},
                        b \in SeqsUpTo(BodyLines, n - 1)} : WellFormedRecord(ls, i)}

\* the records with "none" on their header line: the absent slot i=none,
\* and records of the same shape as the others whose header line holds the
\* token
SkippedOf(i) ==
  { <<HdrNone(i)>>,
    <<HdrNoneSingle(i)>>,
    <<HdrNoneOpen(i), CloseLine>>,
    <<HdrNoneOpen(i), FieldLine, CloseLine>> }

ItemsUpTo(n) ==
  IF n < 1 THEN {}
  ELSE UNION {{[kind |-> "record", id |-> i, lines |-> ls] : ls \in RecordsOf(i, n)} :
               i \in RecordIds}
         \cup UNION {{[kind |-> "slot", id |-> i, lines |-> ls] :
                        ls \in SkippedOf(i)} : i \in SlotIds}
         \cup {[kind |-> "gap", id |-> NoId, lines |-> <<FieldLine>>]}

\* the runs of items of the pool with at most n lines in all, no two
\* records or slots of a run with the same id
RECURSIVE ItemSeqsFrom(_, _, _)
ItemSeqsFrom(pool, n, used) ==
  {<<>>} \cup
    UNION {{<<it>> \o rest :
              rest \in ItemSeqsFrom(pool, n - Len(it.lines),
                                    IF it.kind = "gap" THEN used ELSE used \cup {it.id})} :
           it \in {x \in pool : Len(x.lines) <= n /\ (x.kind # "gap" => x.id \notin used)}}

ItemSeqs(n) == ItemSeqsFrom(ItemsUpTo(n), n, {})

RECURSIVE Flatten(_)
Flatten(items) ==
  IF items = <<>> THEN <<>> ELSE Head(items).lines \o Flatten(Tail(items))

RecordItems(items) == {k \in 1..Len(items) : items[k].kind = "record"}

SlotItems(items) == {k \in 1..Len(items) : items[k].kind = "slot"}

\* every record with "none" on its header line is that line and no more
SlotsAreSingleLines(items) == \A k \in SlotItems(items) : Len(items[k].lines) = 1

Tails == {<<>>, <<FieldLine>>, <<CloseLine>>} \cup {<<HdrSingle(t)>> : t \in TailIds}

SectionInit ==
  /\ \E items \in ItemSeqs(MaxSectionLines), closed \in BOOLEAN, tail \in Tails,
        cut \in BOOLEAN :
       /\ closed \/ tail = <<>>
       /\ cut => /\ ~closed
                 /\ items # <<>>
                 /\ items[Len(items)].kind = "record"
                 /\ Len(items[Len(items)].lines) >= 2
       /\ Len(Flatten(items)) + (IF closed THEN 1 ELSE 0) + Len(tail) <= MaxSectionLines
       /\ layout = [items |-> items, closed |-> closed, tail |-> tail, cut |-> cut]
       /\ lines = IF cut THEN SubSeq(Flatten(items), 1, Len(Flatten(items)) - 1)
                  ELSE Flatten(items) \o (IF closed THEN <<CloseLine>> ELSE <<>>) \o tail
  /\ pos = 0
  /\ objects = [i \in RecordIds \cup SlotIds \cup TailIds |-> Absent]
  /\ object_id = NoId
  /\ block_lines = <<>>
  /\ brace_level = 0
  /\ spc = "outer"
  /\ spans = <<>>

\* line streams of any composition: header lines for two ids, with the
\* opening brace on the line, after it or closed on it, an absent slot,
\* and lines that are no headers, in any order
MaxScanLines == 4               \* longest line stream of any composition

ScanLines ==
  {HdrOpen(1), HdrBare(1), HdrSingle(2), HdrOpen(2), HdrNone(3),
   FieldLine, OpenLine, CloseLine}

ScanInit ==
  /\ lines \in SeqsUpTo(ScanLines, MaxScanLines)
  /\ layout = [items |-> <<>>, closed |-> FALSE, tail |-> <<>>, cut |-> FALSE]
  /\ pos = 0
  /\ objects = [i \in RecordIds \cup SlotIds \cup TailIds |-> Absent]
  /\ object_id = NoId
  /\ block_lines = <<>>
  /\ brace_level = 0
  /\ spc = "outer"
  /\ spans = <<>>

--------------------------------------------------------------------------
(* parse_stellaris_save, lines 481-499: the wormhole pairs.  Ids are the  *)
(* strings the block parser captured, written as sequences of digits,    *)
(* because sorted() compares them as strings.                            *)

BypassIds == {1, 2, 3}
SystemIds == {<<2>>, <<1, 0>>}          \* '2' and '10'
NoLink    == 0                          \* no 'linked_to' key in the record
NoSystem  == <<>>                       \* dict.get() gave None
MaxBypasses == 3

\* a bypass record as parse_generic_block returns it (lines 409-430): its
\* 'type' and, when present, its 'linked_to'
BypassRecords ==
  {[id |-> i, type |-> "wormhole", linked_to |-> l] :
      i \in BypassIds, l \in BypassIds \cup {NoLink}}
  \cup {[id |-> i, type |-> "lgate", linked_to |-> i] : i \in BypassIds}

\* the natural wormhole record of a bypass, if any: its 'bypass' and its
\* 'origin', which may be missing
Anchors(i) ==
  {<<>>} \cup {<<[bypass |-> i, origin |-> o]>> : o \in SystemIds \cup {NoSystem}}

PairingInit ==
  /\ bypasses \in {q \in SeqsUpTo(BypassRecords, MaxBypasses) :
                     \A i, j \in 1..Len(q) : i # j => q[i].id # q[j].id}
  /\ \E a1 \in Anchors(1), a2 \in Anchors(2), a3 \in Anchors(3) :
       natural_wormholes = a1 \o a2 \o a3
  /\ bypass_to_system_map = [i \in BypassIds |-> NoSystem]
  /\ wormhole_pairs = <<>>
  /\ processed_bypasses = {}
  /\ pair_ends = <<>>
  /\ bypass_pos = 0
  /\ ppc = "map"

\* lines 481-483: the last record of a bypass gives its system
RECURSIVE BypassToSystemMap(_, _)
BypassToSystemMap(map, nws) ==
  IF nws = <<>> THEN map
  ELSE LET nw_data == Head(nws)
       IN  BypassToSystemMap(
             IF nw_data.bypass # NoLink /\ nw_data.origin # NoSystem
             THEN [map EXCEPT ![nw_data.bypass] = nw_data.origin]
             ELSE map,
             Tail(nws))

\* the order of Python strings of digits
RECURSIVE StrLess(_, _)
StrLess(a, b) ==
  IF b = <<>> THEN FALSE
  ELSE IF a = <<>> THEN TRUE
  ELSE IF Head(a) # Head(b) THEN Head(a) < Head(b)
  ELSE StrLess(Tail(a), Tail(b))

\* a pair kept in the order the bypasses were met
AsMet(system1, system2) == <<system1, system2>>

\* line 492: tuple(sorted((system1, system2)))
SortedPair(system1, system2) ==
  IF StrLess(system2, system1) THEN <<system2, system1>> ELSE <<system1, system2>>

\* lines 487-495, one turn of the loop, on st = [pairs, processed, ends]
PairStep(map, st, bypass_data) ==
  IF bypass_data.type = "wormhole" /\ bypass_data.linked_to # NoLink
       /\ bypass_data.id \notin st.processed
  THEN LET partner_id == bypass_data.linked_to
           system1 == map[bypass_data.id]
           system2 == map[partner_id]
           pair    == SortedPair(system1, system2)
           added   == system1 # NoSystem /\ system2 # NoSystem /\ pair \notin Range(st.pairs)
       IN  [pairs     |-> IF added THEN Append(st.pairs, pair) ELSE st.pairs,
            ends      |-> IF added THEN Append(st.ends, <<bypass_data.id, partner_id>>)
                          ELSE st.ends,
            processed |-> st.processed \cup {bypass_data.id, partner_id}]
  ELSE st

\* lines 485-495 over a whole dict
RECURSIVE PairAll(_, _, _)
PairAll(map, st, bs) ==
  IF bs = <<>> THEN st ELSE PairAll(map, PairStep(map, st, Head(bs)), Tail(bs))

\* lines 481-483
BuildBypassMap ==
  /\ ppc = "map"
  /\ bypass_to_system_map' = BypassToSystemMap(bypass_to_system_map, natural_wormholes)
  /\ ppc' = "pair"
  /\ UNCHANGED <<bypasses, natural_wormholes, wormhole_pairs, processed_bypasses,
                 pair_ends, bypass_pos, notPairing>>

\* lines 486-495: one bypass of the dict
PairBypass ==
  /\ ppc = "pair"
  /\ bypass_pos < Len(bypasses)
  /\ LET st == PairStep(bypass_to_system_map,
                        [pairs |-> wormhole_pairs, processed |-> processed_bypasses,
                         ends |-> pair_ends],
                        bypasses[bypass_pos + 1])
     IN  /\ wormhole_pairs' = st.pairs
         /\ processed_bypasses' = st.processed
         /\ pair_ends' = st.ends
  /\ bypass_pos' = bypass_pos + 1
  /\ UNCHANGED <<bypasses, natural_wormholes, bypass_to_system_map, ppc, notPairing>>

\* line 486, the dict is exhausted
PairingDone ==
  /\ ppc = "pair"
  /\ bypass_pos = Len(bypasses)
  /\ ppc' = "done"
  /\ UNCHANGED <<bypasses, natural_wormholes, bypass_to_system_map, wormhole_pairs,
                 processed_bypasses, pair_ends, bypass_pos, notPairing>>

--------------------------------------------------------------------------
(* main, lines 1051-1064, and write_initializer_file, lines 563-567: the  *)
(* megastructures.  A megastructure is named by its place in              *)
(* parsed_megastructures; every one of them has a 'type' and an 'origin'  *)
(* other than the sentinel (line 501).                                    *)

Sentinel == -1                  \* the id '4294967295', 2^32 - 1, as a 32-bit integer
MaxMegas == 2                   \* longest parsed_megastructures list

MegaRecords ==
  {[origin |-> o, planet |-> p] :
     o \in StarIds \cup MissingIds,
     p \in {NoRef, Sentinel} \cup PlanetIds \cup MissingIds}

\* two systems: either each with planets of its own, or the second one
\* listing the planet of the first one again; the second planet is a planet,
\* a moon of the first planet, or named as its own parent, and the first
\* planet may be named a moon of the second
MegaInit ==
  /\ \E mo1 \in {NoRef, 2}, mo2 \in {NoRef, 1, 2} :
       planets = [p \in PlanetIds |->
                    [moon_of |-> CASE p = 1 -> mo1 [] p = 2 -> mo2 [] OTHER -> NoRef,
                     abs_x |-> p, abs_y |-> 0,
                     children |-> <<>>, parent |-> UnsetParent,
                     nesting_level |-> NoLevel]]
  /\ \E shared \in BOOLEAN :
       stars = [s \in StarIds |->
                  IF shared THEN (IF s = 1 THEN <<1>> ELSE <<1, 2>>)
                  ELSE (IF s = 1 THEN <<1, 2>> ELSE <<3>>)]
  /\ centers = [s \in StarIds |-> [children |-> <<>>, nesting_level |-> NoLevel]]
  /\ hierarchical_systems = <<>>
  /\ output = <<>>
  /\ star_pos = 1
  /\ write_pos = 1
  /\ emitted = [s \in StarIds |-> <<>>]
  /\ wpc = "run"
  /\ NamesIdle
  /\ parsed_megastructures \in SeqsUpTo(MegaRecords, MaxMegas)
  /\ planet_bound_megas = <<>>
  /\ attached_mega = [p \in PlanetIds |-> 0]
  /\ mega_output = <<>>
  /\ megastructures_by_system = [o \in StarIds \cup MissingIds |-> <<>>]
  /\ mega_pos = 0
  /\ mpc = "attach"

\* a host reference that is neither missing nor the sentinel
\* (lines 1057 and 565)
HasHost(mega) == mega.planet # NoRef /\ mega.planet # Sentinel

\* a host reference that names a body of the hierarchy of the megastructure's
\* system
HostInTree(pl, ct, mega) ==
  /\ mega.origin \in StarIds
  /\ mega.planet \in Closure(pl, Range(ct[mega.origin].children))

\* line 566: if not original_planet_id or original_planet_id == '4294967295'
IsFreeFloating(mega) == ~HasHost(mega)

\* lines 1055-1064 for the megastructure at mega_pos; find_body_in_system
\* (lines 790-799) walks the children lists breadth first and never ends
\* when it meets a cycle before the id
AttachMega ==
  /\ mpc = "attach"
  /\ star_pos \notin StarIds
  /\ mega_pos < Len(parsed_megastructures)
  /\ LET k    == mega_pos + 1
         mega == parsed_megastructures[k]
     IN  IF HasHost(mega) /\ mega.origin \in Range(hierarchical_systems)
         THEN /\ planet_bound_megas' = Append(planet_bound_megas, k)
              /\ IF HostInTree(planets, centers, mega)
                 THEN /\ attached_mega' = [attached_mega EXCEPT ![mega.planet] = k]
                      /\ mega_pos' = k
                      /\ UNCHANGED <<mega_output, mpc>>
                 ELSE IF WalkDiverges(planets, centers[mega.origin].children)
                 THEN /\ mpc' = "hung"
                      /\ UNCHANGED <<attached_mega, mega_output, mega_pos>>
                 ELSE /\ mega_output' = Append(mega_output, [kind |-> "no host", mega |-> k])
                      /\ mega_pos' = k
                      /\ UNCHANGED <<attached_mega, mpc>>
         ELSE /\ mega_pos' = k
              /\ UNCHANGED <<planet_bound_megas, attached_mega, mega_output, mpc>>
  /\ UNCHANGED <<parsed_megastructures, megastructures_by_system, notMega>>

\* line 1055, the list is exhausted; main goes on to the writers
AttachDone ==
  /\ mpc = "attach"
  /\ star_pos \notin StarIds
  /\ mega_pos = Len(parsed_megastructures)
  /\ mpc' = "group"
  /\ UNCHANGED <<parsed_megastructures, planet_bound_megas, attached_mega, mega_output,
                 megastructures_by_system, mega_pos, notMega>>

\* lines 563-567 over the list from place k on
RECURSIVE BySystem(_, _, _)
BySystem(by, megas, k) ==
  IF k > Len(megas) THEN by
  ELSE BySystem(IF IsFreeFloating(megas[k])
                THEN [by EXCEPT ![megas[k].origin] = Append(@, k)]
                ELSE by,
                megas, k + 1)

\* write_initializer_file, lines 563-567; lines 753 and 762 emit
\* megastructures_by_system[sys_id] for each system
GroupFreeMegas ==
  /\ mpc = "group"
  /\ megastructures_by_system' = BySystem(megastructures_by_system, parsed_megastructures, 1)
  /\ mpc' = "done"
  /\ UNCHANGED <<parsed_megastructures, planet_bound_megas, attached_mega, mega_output,
                 mega_pos, notMega>>

--------------------------------------------------------------------------
(* parse_stellaris_save, lines 458-480: the loop over the lines of the    *)
(* gamestate file.  It shares line_iterator with parse_keyed_section, so  *)
(* the scanner's actions above run between EnterSection and LeaveSection. *)
(* The files hold no nebula= line.                                        *)

Markers == {"galactic_object", "planets"}

MarkerLine(m) == [FieldLine EXCEPT !.marker = m]     \* galactic_object=

\* the number of next(line_iterator) calls after the marker
\* (lines 469 and 470)
SkippedAfter(m) == IF m = "planets" THEN 2 ELSE 1

EmptyMap == [i \in RecordIds \cup SlotIds \cup TailIds |-> Absent]

\* the records of a section of the file, and the ids they are stored under
Contents ==
  { [lines |-> <<>>, ids |-> {}],
    [lines |-> <<HdrNone(3), HdrSingle(1)>>, ids |-> {1}],
    [lines |-> <<HdrOpen(2), FieldLine, CloseLine>>, ids |-> {2}],
    [lines |-> <<HdrBare(1), OpenLine, CloseLine, HdrSingle(2)>>, ids |-> {1, 2}] }

\* galactic_object= / { / records / }     and
\* planets= / { / planet= / { / records / } / }
Opening(m) == IF m = "planets" THEN <<OpenLine, FieldLine, OpenLine>> ELSE <<OpenLine>>
Closing(m) == IF m = "planets" THEN <<CloseLine, CloseLine>> ELSE <<CloseLine>>

\* a section as the game writes it ("normal"), one whose marker is not
\* followed by its brace ("nobrace"), and one whose marker has the brace on
\* its own line, which line 469 does not recognise ("inline")
SectionText(m, variant, c) ==
  CASE variant = "normal"  -> <<MarkerLine(m)>> \o Opening(m) \o c.lines \o Closing(m)
    [] variant = "nobrace" -> <<MarkerLine(m)>> \o c.lines \o Closing(m)
    [] OTHER               -> <<OpenLine>> \o c.lines \o Closing(m)

FileSections ==
  {[marker |-> m, variant |-> v, ids |-> c.ids, lines |-> SectionText(m, v, c)] :
     m \in Markers, v \in {"normal", "nobrace", "inline"}, c \in Contents}

MaxSaveLines == 14              \* longest gamestate file

\* one or two sections with different markers; the file may end anywhere
SaveInit ==
  /\ \E secs \in {q \in SeqsUpTo(FileSections, Cardinality(Markers)) :
                    /\ Len(q) >= 1
                    /\ \A i, j \in 1..Len(q) : i # j => q[i].marker # q[j].marker} :
       LET whole == Flatten(secs)
       IN  \E n \in 0..Len(whole) :
             /\ n <= MaxSaveLines
             /\ lines = SubSeq(whole, 1, n)
             /\ file = [sections |-> secs, length |-> n]
  /\ pos = 0
  /\ objects = EmptyMap
  /\ object_id = NoId
  /\ block_lines = <<>>
  /\ brace_level = 0
  /\ spc = "idle"
  /\ layout = [items |-> <<>>, closed |-> FALSE, tail |-> <<>>, cut |-> FALSE]
  /\ spans = <<>>
  /\ save_result = [m \in Markers |-> EmptyMap]
  /\ section = ""
  /\ gpc = "scan"

\* line 467, a line that is no section marker
SaveLine ==
  /\ gpc = "scan"
  /\ pos < Len(lines)
  /\ lines[pos + 1].marker \notin Markers
  /\ pos' = pos + 1
  /\ UNCHANGED <<lines, objects, object_id, block_lines, brace_level, spc, layout, spans,
                 save_result, section, gpc, file, notSave>>

\* lines 469-470, a section marker: next(line_iterator) for each line to
\* skip, then the call of parse_keyed_section.  next() raises StopIteration
\* at the end of the file; it is an Exception, line 480 returns
\* None, None, None, None, None, counts
EnterSection ==
  /\ gpc = "scan"
  /\ pos < Len(lines)
  /\ lines[pos + 1].marker \in Markers
  /\ LET m == lines[pos + 1].marker
     IN  IF pos + 1 + SkippedAfter(m) > Len(lines)
         THEN /\ gpc' = "aborted"
              /\ pos' = Len(lines)
              /\ UNCHANGED <<objects, spc, section, spans>>
         ELSE /\ pos' = pos + 1 + SkippedAfter(m)
              /\ objects' = EmptyMap
              /\ spans' = <<>>
              /\ spc' = "outer"
              /\ section' = m
              /\ gpc' = "section"
  /\ UNCHANGED <<lines, object_id, block_lines, brace_level, layout, save_result, file,
                 notSave>>

\* lines 469-470: the map parse_keyed_section returned is assigned
LeaveSection ==
  /\ gpc = "section"
  /\ spc \in {"done", "exhausted"}
  /\ save_result' = [save_result EXCEPT ![section] = objects]
  /\ spc' = "idle"
  /\ gpc' = "scan"
  /\ UNCHANGED <<lines, pos, objects, object_id, block_lines, brace_level, layout, spans,
                 section, file, notSave>>

\* line 467, the file is exhausted: the function goes on to line 482 and
\* returns the maps on line 512
SaveEnd ==
  /\ gpc = "scan"
  /\ pos = Len(lines)
  /\ gpc' = "returned"
  /\ UNCHANGED <<lines, pos, objects, object_id, block_lines, brace_level, spc, layout, spans,
                 save_result, section, file, notSave>>

--------------------------------------------------------------------------
(* resolve_name(name_block_content, loc_data, star_count_context,         *)
(* parent_body_name).  A template is a sequence of tokens: "key=" followed *)
(* by the quoted name, "variables=", "value=", "{" and "}", with no white *)
(* space between them, so that every \s* of the patterns matches the      *)
(* empty string; offsets are offsets of tokens.  A display string is the  *)
(* sequence of its words and of the spaces between them.  What Python     *)
(* computes on the characters of a name (startswith, endswith, re.sub,    *)
(* replace, upper, lower, len) is tabulated for the names used here.      *)

StarKeys   == {"STAR_NAME_1_OF_2", "STAR_NAME_2_OF_2", "STAR_NAME_3_OF_3",
               "STAR_NAME_4_OF_4"}
ColonyKeys == {"NEW_COLONY_NAME_1"}
FormatKeys == {"PLANET_NAME_FORMAT", "SUBPLANET_NAME_FORMAT", "ASTEROID_NAME_FORMAT",
               "HABITAT_NAME_FORMAT"}
LeafKeys   == {"Sol", "NAME_Deneb", "$Sol$"}
Numerals   == {"I", "i", "II", "b", "B"}
HabitatKey == "HABITAT_PLANET_NAME"
SystemNameKey == "FROM.from.solar_system.GetName"

NoCount == -1                   \* star_count_context is None
NoOrdinal == -1                 \* re.match on line 257 gave None

\* line 257: int(star_match.group(1)) for re.match(r'STAR_NAME_(\d)_OF_(\d)')
StarOrdinal(name_key) ==
  CASE name_key = "STAR_NAME_1_OF_2" -> 1
    [] name_key = "STAR_NAME_2_OF_2" -> 2
    [] name_key = "STAR_NAME_3_OF_3" -> 3
    [] name_key = "STAR_NAME_4_OF_4" -> 4
    [] OTHER -> NoOrdinal

\* the first letter whatever the ordinal
FirstLetter(num) == "A"

\* line 260: ('ABC')[num - 1]
SuffixLetter(num) == CASE num = 1 -> "A" [] num = 2 -> "B" [] OTHER -> "C"

\* line 249: strip('$') of a name that starts and ends with '$'
StripDollars(name_key) == IF name_key = "$Sol$" THEN "Sol" ELSE name_key

\* name.replace('_', ' ') as words
Spaced(name) ==
  CASE name = "NAME_Deneb"            -> <<"NAME", " ", "Deneb">>
    [] name = "STAR_NAME_1_OF_2"      -> <<"STAR", " ", "NAME", " ", "1", " ", "OF", " ", "2">>
    [] name = "STAR_NAME_2_OF_2"      -> <<"STAR", " ", "NAME", " ", "2", " ", "OF", " ", "2">>
    [] name = "STAR_NAME_3_OF_3"      -> <<"STAR", " ", "NAME", " ", "3", " ", "OF", " ", "3">>
    [] name = "STAR_NAME_4_OF_4"      -> <<"STAR", " ", "NAME", " ", "4", " ", "OF", " ", "4">>
    [] name = "NEW_COLONY_NAME_1"     -> <<"NEW", " ", "COLONY", " ", "NAME", " ", "1">>
    [] name = "PLANET_NAME_FORMAT"    -> <<"PLANET", " ", "NAME", " ", "FORMAT">>
    [] name = "SUBPLANET_NAME_FORMAT" -> <<"SUBPLANET", " ", "NAME", " ", "FORMAT">>
    [] name = "ASTEROID_NAME_FORMAT"  -> <<"ASTEROID", " ", "NAME", " ", "FORMAT">>
    [] name = "HABITAT_NAME_FORMAT"   -> <<"HABITAT", " ", "NAME", " ", "FORMAT">>
    [] name = "HABITAT_PLANET_NAME"   -> <<"HABITAT", " ", "PLANET", " ", "NAME">>
    [] name = "FROM.from.solar_system.GetName" -> <<"FROM.from.solar", " ", "system.GetName">>
    [] OTHER -> <<name>>

\* lines 297-299: the suffix _system or _SYSTEM and the prefix NAME_ or
\* SPEC_ removed, then '_' replaced by ' '
CleanName(name_key) ==
  IF name_key = "NAME_Deneb" THEN <<"Deneb">> ELSE Spaced(name_key)

\* the table without its entries
NoLookup(loc, name_key) == CleanName(name_key)

\* lines 296-299
Lookup(loc, name_key) ==
  IF name_key \in DOMAIN loc THEN loc[name_key] ELSE CleanName(name_key)

\* len(), upper() and lower() of a numeral
NumeralLen(n) == IF n = "II" THEN 2 ELSE 1
Upper(n) == CASE n = "i" -> "I" [] n = "b" -> "B" [] OTHER -> n
Lower(n) == CASE n = "I" -> "i" [] n = "B" -> "b" [] n = "II" -> "ii" [] OTHER -> n

\* a test on the numeral as it is written
IsUpperRoman(moon_numeral) ==
  NumeralLen(moon_numeral) > 1 \/ moon_numeral \in {"I", "V", "X"}

\* line 278
IsRomanPlanetNumeral(moon_numeral) ==
  NumeralLen(moon_numeral) > 1 \/ Upper(moon_numeral) \in {"I", "V", "X"}

\* 'key="<name>"' in text
HasKey(t, name) == ReSearch(<<"key=", name>>, t, 0) # NoMatch

\* re.search(r'key="([^"]+)"', text): the offset of the first key= that has
\* a name after it
RECURSIVE KeySearch(_, _)
KeySearch(t, off) ==
  IF off + 2 > Len(t) THEN NoMatch
  ELSE IF CharAt(t, off) = "key=" THEN off ELSE KeySearch(t, off + 1)

\* lines 241-247: the key at the start of the text, else the first one
\* anywhere; "" when there is none
NameKey(t) ==
  IF Len(t) >= 2 /\ CharAt(t, 0) = "key=" THEN CharAt(t, 1)
  ELSE IF KeySearch(t, 0) # NoMatch THEN CharAt(t, KeySearch(t, 0) + 1)
  ELSE ""

\* a block was returned and it is not empty (if variables_content, etc.)
Truthy(r) == r.found /\ r.content # <<>>

\* line 250
VariablesContent(t) == GetNestedBlockContent(t, <<"variables=", "{">>, 0)

\* lines 250 and 253, 264-265, 272, 287, 291: the value block of a variable
\* in the variables block of the text
NestedValue(t, variable) ==
  LET variables_content == VariablesContent(t)
  IN  IF ~Truthy(variables_content) THEN NotFound
      ELSE GetNestedBlockContent(variables_content.content,
                                 <<"key=", variable, "value=", "{">>, 0)

\* line 273, re.findall: the names captured by the successive matches of
\* key="NUMERAL"\s*value\s*=\s*{\s*key="([^"]+)" from offset off on
RECURSIVE NumeralMatches(_, _)
NumeralMatches(t, off) ==
  LET m == ReSearch(<<"key=", "NUMERAL", "value=", "{", "key=">>, t, off)
  IN  IF m = NoMatch \/ m + 6 > Len(t) THEN <<>>
      ELSE <<CharAt(t, m + 5)>> \o NumeralMatches(t, m + 6)

\* the first name of a block: lines 268, 289, 293
FirstName(block) ==
  IF KeySearch(block, 0) = NoMatch THEN "" ELSE CharAt(block, KeySearch(block, 0) + 1)

\* lines 234-239: the synthesized habitat name, <<>> when the special case
\* does not apply
HabitatName(t, loc) ==
  IF HasKey(t, HabitatKey) /\ HasKey(t, SystemNameKey)
  THEN LET m == ReSearch(<<"key=", SystemNameKey, "value=", "{", "key=">>, t, 0)
       IN  IF m = NoMatch \/ m + 6 > Len(t) THEN <<>>
           ELSE LET system_name == CharAt(t, m + 5)
                IN  (IF system_name \in DOMAIN loc THEN loc[system_name]
                     ELSE Spaced(system_name))
                    \o <<" ", "Habitat", " ", "Complex">>
  ELSE <<>>

\* the key the branches of lines 251-295 are chosen by
Family(t) ==
  LET name_key == StripDollars(NameKey(t))
  IN  IF ~Truthy(VariablesContent(t)) THEN "none"
      ELSE CASE name_key \in StarKeys                  -> "star"
             [] name_key \in ColonyKeys                -> "colony"
             [] name_key = "PLANET_NAME_FORMAT"        -> "planet"
             [] name_key = "SUBPLANET_NAME_FORMAT"     -> "moon"
             [] name_key = "ASTEROID_NAME_FORMAT"      -> "asteroid"
             [] OTHER                                  -> "none"

Unknown == <<"Unknown">>

\* the last element of a non-empty list: numeral_matches[-1]
Last(q) == q[Len(q)]

Returns(v) == [call |-> FALSE, block |-> <<>>, value |-> v]
Recurses(b) == [call |-> TRUE, block |-> b, value |-> <<>>]

\* lines 232-299 up to the recursive call: either the string returned
\* without one, or the block resolve_name is called on (lines 255, 267, 275)
Plan(t, loc) ==
  IF t = <<>> THEN Returns(Unknown)
  ELSE IF HabitatName(t, loc) # <<>> THEN Returns(HabitatName(t, loc))
  ELSE IF NameKey(t) = "" THEN Returns(Unknown)
  ELSE LET name_key == StripDollars(NameKey(t))
           family   == Family(t)
       IN  CASE family \in {"star", "colony"} ->
                  LET name_value_block == NestedValue(t, "NAME")
                  IN  IF Truthy(name_value_block) THEN Recurses(name_value_block.content)
                      ELSE Returns(<<"Unknown", " ", "Star">>)
             [] family = "planet" ->
                  LET parent_value_block  == NestedValue(t, "PARENT")
                      numeral_value_block == NestedValue(t, "NUMERAL")
                  IN  IF Truthy(parent_value_block) /\ Truthy(numeral_value_block)
                      THEN Recurses(parent_value_block.content)
                      ELSE Returns(<<"Unknown", " ", "Planet">>)
             [] family = "moon" ->
                  LET parent_value_block == NestedValue(t, "PARENT")
                      numeral_matches    == NumeralMatches(VariablesContent(t).content, 0)
                  IN  IF Truthy(parent_value_block) /\ numeral_matches # <<>>
                      THEN Recurses(parent_value_block.content)
                      ELSE Returns(<<"Unknown", " ", "Moon">>)
             [] family = "asteroid" ->
                  LET prefix_val_block == NestedValue(t, "prefix")
                      suffix_val_block == NestedValue(t, "suffix")
                      prefix == IF Truthy(prefix_val_block)
                                   /\ FirstName(prefix_val_block.content) # ""
                                THEN <<FirstName(prefix_val_block.content)>> ELSE <<>>
                      suffix == IF Truthy(suffix_val_block)
                                   /\ FirstName(suffix_val_block.content) # ""
                                THEN <<FirstName(suffix_val_block.content)>> ELSE <<>>
                  IN  Returns(prefix \o suffix)
             [] OTHER -> Returns(Lookup(loc, name_key))

\* lines 256-261, 268-270, 276-283: the string returned once the recursive
\* call has given sub
Finish(t, star_count, parent_name, sub) ==
  LET name_key == StripDollars(NameKey(t))
      family   == Family(t)
  IN  CASE family = "colony" -> sub \o <<" ", "Prime">>
        [] family = "star" ->
             LET num == StarOrdinal(name_key)
             IN  IF num # NoOrdinal /\ star_count # NoCount /\ star_count > 1
                    /\ 1 <= num /\ num <= 3
                 THEN sub \o <<" ", SuffixLetter(num)>>
                 ELSE sub
        [] family = "planet" ->
             LET numeral == FirstName(NestedValue(t, "NUMERAL").content)
             IN  IF numeral # "" THEN sub \o <<" ", numeral>>
                 ELSE <<"Unknown", " ", "Planet">>
        [] OTHER ->
             LET moon_numeral == Last(NumeralMatches(VariablesContent(t).content, 0))
             IN  IF parent_name # NoName /\ sub # parent_name THEN sub
                 ELSE IF IsRomanPlanetNumeral(moon_numeral)
                 THEN sub \o <<" ", moon_numeral>>
                 ELSE sub \o <<Lower(moon_numeral)>>

\* resolve_name as a function; the recursive calls pass star_count_context
\* on and no parent_body_name
RECURSIVE ResolveName(_, _, _, _)
ResolveName(t, loc, star_count, parent_name) ==
  LET p == Plan(t, loc)
  IN  IF p.call
      THEN Finish(t, star_count, parent_name, ResolveName(p.block, loc, star_count, NoName))
      ELSE p.value

(* The templates *)

Leaf(k) == <<"key=", k>>
Entry(variable, value) == <<"{", "key=", variable, "value=", "{">> \o value \o <<"}", "}">>
WithVariables(k, entries) == <<"key=", k, "variables=", "{">> \o entries \o <<"}">>

Leaves == {Leaf(k) : k \in LeafKeys}

StarNames(inner) ==
  {WithVariables(k, Entry("NAME", v)) : k \in StarKeys \cup ColonyKeys, v \in inner}

PlanetNames(inner) ==
  {WithVariables("PLANET_NAME_FORMAT", Entry("PARENT", v) \o Entry("NUMERAL", Leaf(n))) :
     v \in inner, n \in {"II", "b"}}

\* a moon's numeral after its parent, alone or after another numeral, and
\* before its parent
MoonNames(inner) ==
  {WithVariables("SUBPLANET_NAME_FORMAT", Entry("PARENT", v) \o Entry("NUMERAL", Leaf(n))) :
     v \in inner, n \in Numerals}
  \cup {WithVariables("SUBPLANET_NAME_FORMAT",
                      Entry("NUMERAL", Leaf("II")) \o Entry("PARENT", v)
                        \o Entry("NUMERAL", Leaf(n))) : v \in inner, n \in {"I", "b"}}
  \cup {WithVariables("SUBPLANET_NAME_FORMAT",
                      Entry("NUMERAL", Leaf(n)) \o Entry("PARENT", v)) :
          v \in inner, n \in {"I", "b"}}

OtherNames ==
  { WithVariables("ASTEROID_NAME_FORMAT", Entry("prefix", Leaf("Sol")) \o Entry("suffix", Leaf("b"))),
    WithVariables("ASTEROID_NAME_FORMAT", Entry("suffix", Leaf("b"))),
    WithVariables("HABITAT_NAME_FORMAT", Entry("NAME", Leaf("Sol"))),
    WithVariables(HabitatKey, Entry(SystemNameKey, Leaf("Sol"))),
    WithVariables(HabitatKey, Entry(SystemNameKey, Leaf("NAME_Deneb"))),
    WithVariables("STAR_NAME_1_OF_2", Entry("NAME", <<>>)),
    WithVariables("STAR_NAME_1_OF_2", <<>>),
    <<"variables=", "{", "}">>,
    <<>> }

\* a star name in a star name, n levels over Sol
RECURSIVE Deep(_)
Deep(n) ==
  IF n = 0 THEN Leaf("Sol") ELSE WithVariables("STAR_NAME_1_OF_2", Entry("NAME", Deep(n - 1)))

BareKeys == {Leaf(k) : k \in {"STAR_NAME_1_OF_2", "SUBPLANET_NAME_FORMAT", HabitatKey}}

Prefixes(t) == {SubSeq(t, 1, n) : n \in 1..(Len(t) - 1)}

\* the depth of calls at which the interpreter raises RecursionError (1000
\* calls by default), on the scale of the templates
RecursionLimit == 3

\* templates of one level over a leaf, of two levels, of one level more
\* than the interpreter has calls for, and templates cut short
Templates ==
  LET flat    == StarNames(Leaves) \cup PlanetNames(Leaves) \cup MoonNames(Leaves)
      nested  == StarNames(StarNames({Leaf("Sol")}))
                   \cup MoonNames(PlanetNames({Leaf("Sol")}))
                   \cup PlanetNames(StarNames({Leaf("Sol")}))
      cut     == UNION {Prefixes(t) :
                          t \in { WithVariables("STAR_NAME_1_OF_2", Entry("NAME", Leaf("Sol"))),
                                  WithVariables("SUBPLANET_NAME_FORMAT",
                                      Entry("PARENT", Leaf("Sol")) \o Entry("NUMERAL", Leaf("b"))) }}
  IN  Leaves \cup BareKeys \cup OtherNames \cup flat \cup nested \cup cut
        \cup {Deep(RecursionLimit)}

\* the localization tables
LocTables ==
  { <<>>,
    [k \in {"Sol"} |-> <<"Sun">>],
    [k \in {"Sol", "$Sol$", "STAR_NAME_1_OF_2", "SUBPLANET_NAME_FORMAT",
            "HABITAT_NAME_FORMAT", HabitatKey} |-> <<"table", k>>] }

MaxStarCount == 2

ResolveInit ==
  /\ template \in Templates
  /\ loc_data \in LocTables
  /\ star_count_context \in {NoCount} \cup 0..MaxStarCount
  /\ parent_body_name \in {NoName, <<"Sol">>, <<"Sol", " ", "II">>}
  /\ frames = <<template>>
  /\ resolved = <<>>
  /\ rpc = "call"

\* parent_body_name as the call at depth d has it
ParentAt(d) == IF d = 1 THEN parent_body_name ELSE NoName

\* the body of the call on top of the stack up to its recursive call or,
\* when it makes none, to its return; a call the interpreter has no room
\* for raises RecursionError, which no caller catches
ResolveCall ==
  /\ rpc = "call"
  /\ LET p == Plan(frames[Len(frames)], loc_data)
     IN  IF p.call
         THEN IF Len(frames) < RecursionLimit
              THEN /\ frames' = Append(frames, p.block)
                   /\ UNCHANGED <<resolved, rpc>>
              ELSE /\ frames' = <<>>
                   /\ rpc' = "error"
                   /\ UNCHANGED resolved
         ELSE /\ resolved' = p.value
              /\ rpc' = "return"
              /\ UNCHANGED frames
  /\ UNCHANGED <<template, loc_data, star_count_context, parent_body_name, notResolve>>

\* the call on top of the stack has returned: its caller goes on from
\* lines 255, 267 or 275 to its own return
ResolveReturn ==
  /\ rpc = "return"
  /\ Len(frames) > 1
  /\ frames' = SubSeq(frames, 1, Len(frames) - 1)
  /\ resolved' = Finish(frames[Len(frames) - 1], star_count_context,
                        ParentAt(Len(frames) - 1), resolved)
  /\ UNCHANGED <<template, loc_data, star_count_context, parent_body_name, rpc, notResolve>>

\* the outermost call has returned
ResolveDone ==
  /\ rpc = "return"
  /\ Len(frames) = 1
  /\ frames' = <<>>
  /\ rpc' = "done"
  /\ UNCHANGED <<template, loc_data, star_count_context, parent_body_name, resolved,
                 notResolve>>

--------------------------------------------------------------------------
(* build_galaxy_hierarchy: one star with the names of its system and of   *)
(* its bodies                                                              *)

\* line 320: any(s in planet_class for s in ['_star', 'hole', 'pulsar'])
IsStarClass(class) == class \in {"pc_g_star", "pc_black_hole", "pc_pulsar"}

\* line 349
StarCount(order) == Cardinality({b \in Range(order) : IsStarClass(planet_class[b])})

\* line 322: the 'name' of system_center
CenterName == <<"System", " ", "Center">>

\* lines 350-355: the bodies in the order resolve_all_names visits them,
\* each body before its children
RECURSIVE VisitOrder(_, _)
VisitOrder(pl, todo) ==
  IF todo = <<>> THEN <<>>
  ELSE <<Head(todo)>> \o VisitOrder(pl, pl[Head(todo)].children) \o VisitOrder(pl, Tail(todo))

\* line 352: body.get('parent', {}).get('name'), nm the names so far
ParentName(pl, nm, b) ==
  CASE pl[b].parent.kind = "center" -> CenterName
    [] pl[b].parent.kind = "body"   -> nm[pl[b].parent.id]
    [] OTHER                        -> NoName

\* lines 350-355: resolve_all_names for the bodies of todo in that order;
\* nm is the 'name' of every body so far
RECURSIVE ResolveAllNames(_, _, _, _)
ResolveAllNames(pl, nm, todo, star_count) ==
  IF todo = <<>> THEN nm
  ELSE LET b == Head(todo)
       IN  ResolveAllNames(pl,
                           IF raw_name_block.body[b] # NoBlock
                           THEN [nm EXCEPT ![b] = ResolveName(raw_name_block.body[b], loc_data,
                                                             star_count, ParentName(pl, nm, b))]
                           ELSE nm,
                           Tail(todo), star_count)

\* lines 315-318: the place in the body map of the first body whose x or
\* y text float() does not convert, 0 when there is none
FirstBadCoordinate(order) ==
  LET bad == {i \in 1..Len(order) :
                ~IsFloat(coordinate[order[i]].x) \/ ~IsFloat(coordinate[order[i]].y)}
  IN  IF bad = {} THEN 0 ELSE CHOOSE i \in bad : \A j \in bad : i <= j

\* lines 306-360 for the star at star_pos; float() on line 317 or 318
\* raises ValueError, which nothing catches, after the bodies before it
\* in the body map were reset
BuildStar ==
  /\ star_pos \in StarIds
  /\ hpc = "run"
  /\ LET s        == star_pos
         order    == BodyMapOrder(stars[s], {})
         listed   == CollectBodies(planets, order)
         mooned   == MoonPass(listed, order, order)
         rootKids == CenterChildren(mooned, order)
         rooted   == CenterPass(mooned, order, s)
         levelled == SetNestingLevels(rooted, rootKids, RootLevel + 1)
         named    == IF raw_name_block.system[s] # NoBlock
                     THEN [names.system EXCEPT
                             ![s] = ResolveName(raw_name_block.system[s], loc_data,
                                                NoCount, NoName)]
                     ELSE names.system
         star_count == StarCount(order)
         bodies   == IF \A p \in PlanetIds : raw_name_block.body[p] = NoBlock
                     THEN names.body
                     ELSE ResolveAllNames(levelled, names.body,
                                          VisitOrder(levelled, rootKids), star_count)
         bad      == FirstBadCoordinate(order)
     IN  IF bad # 0
         THEN /\ planets' = CollectBodies(planets, SubSeq(order, 1, bad - 1))
              /\ names' = [system |-> named, body |-> names.body]
              /\ hpc' = "raised"
              /\ UNCHANGED <<centers, output, hierarchical_systems, star_pos>>
         ELSE /\ planets' = levelled
              /\ centers' = [centers EXCEPT ![s] = [children |-> rootKids,
                                                    nesting_level |-> RootLevel]]
              /\ names' = [system |-> named, body |-> bodies]
              /\ output' = Append(output, [kind |-> "processed", id |-> s])
              /\ hierarchical_systems' = Append(hierarchical_systems, s)
              /\ star_pos' = star_pos + 1
              /\ hpc' = hpc
  /\ UNCHANGED <<stars, write_pos, emitted, wpc, raw_name_block, planet_class, coordinate,
                 notHier>>

\* two or three bodies under the first star, the second star alone or with
\* the third body; name templates on the star records and on the bodies
NamesInit ==
  /\ \E mo2 \in {NoRef, 1} :
       planets = [p \in PlanetIds |->
                    [moon_of |-> IF p = 2 THEN mo2 ELSE NoRef,
                     abs_x |-> p, abs_y |-> 0,
                     children |-> <<>>, parent |-> UnsetParent,
                     nesting_level |-> NoLevel]]
  /\ \E l1 \in {<<1, 2>>, <<1, 2, 3>>}, l2 \in {<<>>, <<3>>} :
       stars = [s \in StarIds |-> IF s = 1 THEN l1 ELSE l2]
  /\ centers = [s \in StarIds |-> [children |-> <<>>, nesting_level |-> NoLevel]]
  /\ hierarchical_systems = <<>>
  /\ output = <<>>
  /\ star_pos = 1
  /\ write_pos = 1
  /\ emitted = [s \in StarIds |-> <<>>]
  /\ wpc = "run"
  /\ \E c2 \in {"pc_black_hole", "pc_continental"}, c3 \in {"pc_pulsar", "pc_continental"} :
       planet_class = [p \in PlanetIds |->
                         CASE p = 1 -> "pc_g_star" [] p = 2 -> c2 [] OTHER -> c3]
  /\ \E sys \in [StarIds -> {NoBlock, Leaf("Sol"), Deep(1)}],
        b2 \in { NoBlock,
                 WithVariables("STAR_NAME_2_OF_2", Entry("NAME", Leaf("Sol"))),
                 WithVariables("SUBPLANET_NAME_FORMAT",
                               Entry("PARENT", Deep(1)) \o Entry("NUMERAL", Leaf("b"))) } :
       raw_name_block =
         [system |-> sys,
          body   |-> [p \in PlanetIds |->
                        CASE p = 1 -> Deep(1)
                          [] p = 2 -> b2
                          [] OTHER -> WithVariables("PLANET_NAME_FORMAT",
                                        Entry("PARENT", Leaf("Sol"))
                                          \o Entry("NUMERAL", Leaf("II")))]]
  /\ names = [system |-> [s \in StarIds |-> NoName], body |-> [p \in PlanetIds |-> NoName]]
  /\ \E x2 \in {Number, "-"}, y3 \in {Number, "1.2.3"} :
       coordinate = [p \in PlanetIds |->
                       [x |-> IF p = 2 THEN x2 ELSE Number,
                        y |-> IF p = 3 THEN y3 ELSE Number]]
  /\ hpc = "run"

--------------------------------------------------------------------------
(* parse_stellaris_save, lines 501-505: the megastructure list.  A record  *)
(* is what parse_generic_block returned for a scanned block: its 'type'    *)
(* and its 'origin', each of which may be missing.                         *)

NoType   == ""                  \* no 'type' key in the record
NoOrigin == 0                   \* no 'origin' key in the record
MaxRawMegas == 3                \* most records of the megastructures section

RawMegaRecords ==
  {[type |-> t, origin |-> o] : t \in {"ring_world", NoType}, o \in {NoOrigin, Sentinel, 1}}

FilterInit ==
  /\ megastructures_raw \in SeqsUpTo(RawMegaRecords, MaxRawMegas)
  /\ counts = [megastructure |-> 0]
  /\ fpc = "filter"

\* a record with a type and an origin, whatever the origin
HasTypeAndOrigin(m) == m.type # NoType /\ m.origin # NoOrigin

\* line 501: the condition of the list comprehension
IsPlaced(m) == m.type # NoType /\ m.origin # NoOrigin /\ m.origin # Sentinel

\* line 501
RECURSIVE PlacedOf(_)
PlacedOf(raw) ==
  IF raw = <<>> THEN <<>>
  ELSE (IF IsPlaced(Head(raw)) THEN <<Head(raw)>> ELSE <<>>) \o PlacedOf(Tail(raw))

\* lines 501 and 505
FilterMegas ==
  /\ fpc = "filter"
  /\ parsed_megastructures' = PlacedOf(megastructures_raw)
  /\ counts' = [counts EXCEPT !.megastructure = Len(PlacedOf(megastructures_raw))]
  /\ fpc' = "done"
  /\ UNCHANGED <<megastructures_raw, planet_bound_megas, attached_mega, mega_output,
                 megastructures_by_system, mega_pos, mpc,
                 hvars, xvars, svars, wvars, gvars, rvars, nvars, bvars, kvars, avars>>

--------------------------------------------------------------------------
(* parse_block_content, lines 376-389: the asteroid belts.  The content of *)
(* the asteroid_belts block is a sequence of items: type="..." with its    *)
(* quoted text, inner_radius=... with the text after the sign, or other    *)
(* text.  An item with an empty text is one the pattern does not match:    *)
(* both patterns ask for at least one character.                           *)

MaxBeltItems == 5               \* most items of one asteroid_belts block

BeltItems ==
  {[key |-> "type", value |-> v] : v \in {"rocky_asteroid_belt", "icy_asteroid_belt", ""}}
    \cup {[key |-> "inner_radius", value |-> v] : v \in {"40", "90", ""}}
    \cup {[key |-> "outer_radius", value |-> "120"]}

BeltsInit ==
  /\ belt_block_content \in SeqsUpTo(BeltItems, MaxBeltItems)
  /\ belts_data = <<>>
  /\ bpc = "parse"

\* re.findall of one of the two patterns: the captured texts, in order
RECURSIVE FindAll(_, _)
FindAll(key, content) ==
  IF content = <<>> THEN <<>>
  ELSE (IF Head(content).key = key /\ Head(content).value # ""
          THEN <<Head(content).value>> ELSE <<>>) \o FindAll(key, Tail(content))

Min(a, b) == IF a <= b THEN a ELSE b

\* the radius of the first occurrence, whatever i
FirstRadius(radius_matches, i) == radius_matches[1]

\* line 385: radius_matches[i]
RadiusOf(radius_matches, i) == radius_matches[i]

\* lines 378-386; the list stays empty, and the key is not stored, when the
\* content is empty (line 377) or no pair was made (line 388)
ParseBelts ==
  /\ bpc = "parse"
  /\ LET type_matches   == FindAll("type", belt_block_content)
         radius_matches == FindAll("inner_radius", belt_block_content)
     IN belts_data' =
          [i \in 1..Min(Len(type_matches), Len(radius_matches)) |->
             [type |-> type_matches[i], radius |-> RadiusOf(radius_matches, i)]]
  /\ bpc' = "done"
  /\ UNCHANGED <<belt_block_content, hvars, xvars, svars, wvars, mvars, gvars, rvars,
                 nvars, fvars, kvars, avars>>

--------------------------------------------------------------------------
(* main, lines 1056-1064, with find_body_in_system, lines 790-799, for one *)
(* megastructure of one built system.  Ids are the numbers of the save     *)
(* file: system_center carries the id '0' (line 323), and a planet may     *)
(* carry it too.  One children list holds no body twice and no list leads  *)
(* back to its owner, so the walk ends.                                    *)

CenterId  == 0                  \* the 'id' of system_center
MaxBodyId == 2                  \* largest planet id of the system
NoPlanet  == -2                 \* no 'planet' key in the megastructure

FindIds == CenterId..MaxBodyId

SystemCenter == [kind |-> "center", id |-> CenterId]
NoBody       == [kind |-> "none", id |-> CenterId]      \* None

\* the ids of a set, smallest first
RECURSIVE IdsInOrder(_)
IdsInOrder(S) ==
  IF S = {} THEN <<>>
  ELSE LET m == CHOOSE x \in S : \A y \in S : x <= y
       IN  <<BodyRef(m)>> \o IdsInOrder(S \ {m})

\* following par from body b reaches system_center within n steps
RECURSIVE UnderCenter(_, _, _)
UnderCenter(par, b, n) ==
  /\ n > 0
  /\ \/ par[b] = SystemCenter
     \/ par[b] # SystemCenter /\ UnderCenter(par, par[b].id, n - 1)

FindInit ==
  /\ \E B \in SUBSET FindIds :
       \E par \in [B -> {SystemCenter} \cup {BodyRef(c) : c \in B}] :
         /\ \A b \in B : UnderCenter(par, b, Cardinality(B))
         /\ children_of =
              [n \in {SystemCenter} \cup {BodyRef(b) : b \in B} |->
                 IdsInOrder({b \in B : par[b] = n})]
  /\ original_planet_id \in FindIds \cup MissingIds \cup {Sentinel, NoPlanet}
  /\ queue = <<>>
  /\ host_planet = NoBody
  /\ with_attached_mega = {}
  /\ apc = "test"

\* lines 1056-1060 and 791-792: the test of the 'planet' value ('0' is a
\* non-empty string) and the queue that holds the root
TestMega ==
  /\ apc = "test"
  /\ IF original_planet_id \notin {NoPlanet, Sentinel}
     THEN queue' = <<SystemCenter>> /\ apc' = "find"
     ELSE queue' = queue /\ apc' = "done"
  /\ UNCHANGED <<children_of, original_planet_id, host_planet, with_attached_mega, notFind>>

\* lines 793-798: one turn of the while loop
FindStep ==
  /\ apc = "find"
  /\ queue # <<>>
  /\ LET body == Head(queue)
     IN  IF body.id = original_planet_id
         THEN /\ host_planet' = body
              /\ queue' = Tail(queue)
              /\ apc' = "found"
         ELSE /\ queue' = Tail(queue) \o children_of[body]
              /\ UNCHANGED <<host_planet, apc>>
  /\ UNCHANGED <<children_of, original_planet_id, with_attached_mega, notFind>>

\* lines 799 and 1063-1064: the queue is empty, None is returned and the
\* warning is printed
FindNone ==
  /\ apc = "find"
  /\ queue = <<>>
  /\ apc' = "warned"
  /\ UNCHANGED <<children_of, original_planet_id, queue, host_planet, with_attached_mega,
                 notFind>>

\* lines 1061-1062
AttachToHost ==
  /\ apc = "found"
  /\ with_attached_mega' = with_attached_mega \cup {host_planet}
  /\ apc' = "done"
  /\ UNCHANGED <<children_of, original_planet_id, queue, host_planet, notFind>>

--------------------------------------------------------------------------
(* write_map_file, lines 517-521 and 533-534: the wormhole flags.  The     *)
(* pair list is the one parse_stellaris_save returns: sorted pairs of      *)
(* system ids, no pair twice (lines 496-498).                              *)

MaxMapSystems == 3              \* most systems with a wormhole
MaxPairs      == 2              \* longest list of wormhole pairs

MapSystemIds == 1..MaxMapSystems

\* line 496: tuple(sorted((system1, system2)))
SortedPairs == {pair \in MapSystemIds \X MapSystemIds : pair[1] <= pair[2]}

\* f"continuum_wormhole_{i}", i counted from 0
FlagOf(i) == [flag |-> "continuum_wormhole", index |-> i]

MapInit ==
  /\ wormhole_pairs \in
       {q \in SeqsUpTo(SortedPairs, MaxPairs) :
          \A i, j \in 1..Len(q) : i # j => q[i] # q[j]}
  /\ wormhole_flags_by_system = <<>>
  /\ flag_pos = 0
  /\ kpc = "flags"
  /\ bypasses = <<>>
  /\ natural_wormholes = <<>>
  /\ bypass_to_system_map = [i \in BypassIds |-> NoSystem]
  /\ processed_bypasses = {}
  /\ pair_ends = <<>>
  /\ bypass_pos = 0
  /\ ppc = "idle"

\* a dict with the key set to the value
Store(dict, key, value) ==
  [k \in DOMAIN dict \cup {key} |-> IF k = key THEN value ELSE dict[k]]

\* lines 518-521 for the pair at flag_pos; enumerate counts from 0
SetPairFlags ==
  /\ kpc = "flags"
  /\ flag_pos < Len(wormhole_pairs)
  /\ LET pair == wormhole_pairs[flag_pos + 1]
         flag == FlagOf(flag_pos)
     IN  wormhole_flags_by_system' =
           Store(Store(wormhole_flags_by_system, pair[1], flag), pair[2], flag)
  /\ flag_pos' = flag_pos + 1
  /\ UNCHANGED <<kpc, notMap>>

\* line 518, the list is exhausted; lines 533-534 write for each system the
\* flag the dict holds for it
FlagsDone ==
  /\ kpc = "flags"
  /\ flag_pos = Len(wormhole_pairs)
  /\ kpc' = "done"
  /\ UNCHANGED <<wormhole_flags_by_system, flag_pos, notMap>>

--------------------------------------------------------------------------
(* Idle values of the other groups *)

FindIdle ==
  /\ children_of = <<>>
  /\ original_planet_id = NoPlanet
  /\ queue = <<>>
  /\ host_planet = NoBody
  /\ with_attached_mega = {}
  /\ apc = "idle"

FilterIdle ==
  /\ megastructures_raw = <<>>
  /\ counts = [megastructure |-> 0]
  /\ fpc = "idle"

BeltsIdle ==
  /\ belt_block_content = <<>>
  /\ belts_data = <<>>
  /\ bpc = "idle"

MapIdle ==
  /\ wormhole_flags_by_system = <<>>
  /\ flag_pos = 0
  /\ kpc = "idle"

ResolveIdle ==
  /\ template = <<>>
  /\ loc_data = <<>>
  /\ star_count_context = NoCount
  /\ parent_body_name = NoName
  /\ frames = <<>>
  /\ resolved = <<>>
  /\ rpc = "idle"

SaveIdle ==
  /\ save_result = [m \in Markers |-> EmptyMap]
  /\ section = ""
  /\ gpc = "idle"
  /\ file = [sections |-> <<>>, length |-> 0]

MegaIdle ==
  /\ parsed_megastructures = <<>>
  /\ planet_bound_megas = <<>>
  /\ attached_mega = [p \in PlanetIds |-> 0]
  /\ mega_output = <<>>
  /\ megastructures_by_system = [o \in StarIds \cup MissingIds |-> <<>>]
  /\ mega_pos = 0
  /\ mpc = "idle"

PairingIdle ==
  /\ bypasses = <<>>
  /\ natural_wormholes = <<>>
  /\ bypass_to_system_map = [i \in BypassIds |-> NoSystem]
  /\ wormhole_pairs = <<>>
  /\ processed_bypasses = {}
  /\ pair_ends = <<>>
  /\ bypass_pos = 0
  /\ ppc = "idle"

ExtractIdle ==
  /\ text = <<>>
  /\ start_regex = <<>>
  /\ start_index = 0
  /\ ret = NotFound
  /\ xpc = "idle"

SectionIdle ==
  /\ lines = <<>>
  /\ pos = 0
  /\ objects = [i \in RecordIds \cup SlotIds \cup TailIds |-> Absent]
  /\ object_id = NoId
  /\ block_lines = <<>>
  /\ brace_level = 0
  /\ spc = "idle"
  /\ layout = [items |-> <<>>, closed |-> FALSE, tail |-> <<>>, cut |-> FALSE]
  /\ spans = <<>>

--------------------------------------------------------------------------
(* The hierarchy builder followed by the initializer writer, as main runs *)
(* them (lines 1049 and 1083)                                             *)

InitHierarchy == HierInit /\ ExtractIdle /\ SectionIdle /\ PairingIdle /\ MegaIdle /\ SaveIdle /\ ResolveIdle
  /\ FilterIdle /\ BeltsIdle /\ MapIdle /\ FindIdle

NextHierarchy == BuildStar \/ WriteSystem

SpecHierarchy == InitHierarchy /\ [][NextHierarchy]_vars

--------------------------------------------------------------------------
(* Properties of the hierarchy builder *)

\* the keys of all_bodies_in_system_map of star s
BodyMapOf(s) == Range(BodyMapOrder(stars[s], {}))

\* star s is the star build_galaxy_hierarchy has processed last
JustBuilt(s) == star_pos = s + 1

\* the nesting_level of the dict a parent reference points to
LevelOf(ref) ==
  CASE ref.kind = "center" -> centers[ref.id].nesting_level
    [] ref.kind = "body"   -> planets[ref.id].nesting_level
    [] OTHER               -> NoLevel

\* the dicts of system s (its center and the bodies of its map) that hold b
\* in their children list
HoldersOf(b, s) ==
  (IF b \in Range(centers[s].children) THEN {CenterRef(s)} ELSE {})
    \cup {BodyRef(q) : q \in {r \in BodyMapOf(s) : b \in Range(planets[r].children)}}

\* the moon_of of b names no body of the map of star s
Dangling(b, s) == planets[b].moon_of # NoRef /\ planets[b].moon_of \notin BodyMapOf(s)

\* C1: after a star is processed, every body of its map has exactly one
\* parent, the system center has level 0 and the level of every body is
\* defined and is its parent's level + 1
C1_HierarchyInvariant ==
  \A s \in StarIds : JustBuilt(s) =>
    /\ centers[s].nesting_level = 0
    /\ \A b \in BodyMapOf(s) :
         /\ planets[b].parent.kind \in {"body", "center"}
         /\ HoldersOf(b, s) = {planets[b].parent}
         /\ planets[b].nesting_level # NoLevel
         /\ planets[b].nesting_level = LevelOf(planets[b].parent) + 1

\* the bodies of the tree of system s, as its children lists give them
TreeOf(pl, ct, s) == Closure(pl, Range(ct[s].children))

\* every body in the tree of a returned system has its parent in that tree
NoForeignParent(pl, ct, built) ==
  \A s \in Range(built) : \A b \in TreeOf(pl, ct, s) :
    \/ pl[b].parent = CenterRef(s)
    \/ pl[b].parent.kind = "body" /\ pl[b].parent.id \in TreeOf(pl, ct, s)

IsPrefix(a, b) == Len(a) <= Len(b) /\ \A i \in 1..Len(a) : a[i] = b[i]

\* C2: over the whole run a parent link, once assigned, is never reset or
\* reassigned, a children list is never reset, and no body of one system's
\* tree gets a parent of another system's tree
C2_ParentAssignedOnce ==
  [][ /\ \A p \in PlanetIds :
           /\ planets[p].parent.kind \in {"body", "center"}
                => planets'[p].parent = planets[p].parent
           /\ IsPrefix(planets[p].children, planets'[p].children)
      /\ NoForeignParent(planets', centers', hierarchical_systems') ]_vars

\* C3 as claimed: a moon whose moon_of names a key of the planets map is a
\* child of exactly that body, whether or not that body is listed under the
\* same star
C3_MoonUnderNamedParent ==
  \A s \in StarIds : JustBuilt(s) =>
    \A b \in BodyMapOf(s) :
      planets[b].moon_of \in DOMAIN planets =>
        /\ planets[b].parent = BodyRef(planets[b].moon_of)
        /\ Occurrences(planets[planets[b].moon_of].children, b) = 1

\* C3 as amended: after a star is processed, a moon whose moon_of names a
\* body listed under the same star is a child of exactly that body and of
\* no other dict of the system; a moon whose moon_of names a planet that is
\* not listed under that star is a child of the system center instead
C3_MoonUnderListedParent ==
  \A s \in StarIds : JustBuilt(s) =>
    \A b \in BodyMapOf(s) :
      LET m == planets[b].moon_of
      IN  /\ m \in BodyMapOf(s) =>
               /\ planets[b].parent = BodyRef(m)
               /\ Occurrences(planets[m].children, b) = 1
               /\ HoldersOf(b, s) = {BodyRef(m)}
          /\ m \in DOMAIN planets \ BodyMapOf(s) =>
               /\ planets[b].parent = CenterRef(s)
               /\ HoldersOf(b, s) = {CenterRef(s)}

\* a moon is attached under another listed body, while a second moon of the
\* same system names a planet that is not listed
C3_Witness ==
  \E s \in StarIds : JustBuilt(s) /\
    \E b, c \in BodyMapOf(s) :
      /\ planets[b].moon_of \in BodyMapOf(s) \ {b}
      /\ planets[b].parent = BodyRef(planets[b].moon_of)
      /\ planets[c].moon_of \in DOMAIN planets \ BodyMapOf(s)

\* C4: a body whose moon_of names an id that is not in the map is a direct
\* child of the system center with nesting level 1, and its system is
\* built and returned
C4_DanglingMoonUnderCenter ==
  \A s \in StarIds : JustBuilt(s) =>
    \A b \in BodyMapOf(s) :
      Dangling(b, s) =>
        /\ planets[b].parent = CenterRef(s)
        /\ Occurrences(centers[s].children, b) = 1
        /\ HoldersOf(b, s) = {CenterRef(s)}
        /\ planets[b].nesting_level = 1
        /\ hierarchical_systems[Len(hierarchical_systems)] = s

\* a processed system holds a body whose moon_of is no key of planets
C4_Witness ==
  \E s \in StarIds : JustBuilt(s) /\
    \E b \in BodyMapOf(s) :
      /\ planets[b].moon_of \in MissingIds
      /\ planets[b].parent = CenterRef(s)

\* C5: for every body whose moon_of names an id that is not in the map a
\* diagnostic naming that body has been printed
C5_DiagnosticEmitted ==
  \A s \in StarIds : JustBuilt(s) =>
    \A b \in BodyMapOf(s) :
      Dangling(b, s) =>
        \E i \in 1..Len(output) : output[i].kind = "diagnostic" /\ output[i].id = b

\* a list is in non-decreasing order of distance, equal distances by angle
OrderedByDistanceThenAngle(pl, kids, ref) ==
  \A i \in 1..(Len(kids) - 1) :
    \/ DistanceSq(pl, kids[i], ref) < DistanceSq(pl, kids[i + 1], ref)
    \/ /\ DistanceSq(pl, kids[i], ref) = DistanceSq(pl, kids[i + 1], ref)
       /\ ~AngleLess(pl, kids[i + 1], kids[i], ref)

IndexIn(q, e) == CHOOSE i \in 1..Len(q) : q[i] = e

--------------------------------------------------------------------------
(* The block extractor on its own *)

InitExtract == ExtractInit /\ HierIdle /\ SectionIdle /\ PairingIdle /\ MegaIdle /\ SaveIdle /\ ResolveIdle
  /\ FilterIdle /\ BeltsIdle /\ MapIdle /\ FindIdle

NextExtract == Extract

SpecExtract == InitExtract /\ [][NextExtract]_vars

--------------------------------------------------------------------------
(* The section scanner on its own *)

InitSection == SectionInit /\ HierIdle /\ ExtractIdle /\ PairingIdle /\ MegaIdle /\ SaveIdle /\ ResolveIdle
  /\ FilterIdle /\ BeltsIdle /\ MapIdle /\ FindIdle

NextSection ==
  \/ SectionExhausted
  \/ SectionEnd
  \/ SkipLine
  \/ SkipAbsentSlot
  \/ SingleLineRecord
  \/ StartBlock
  \/ BlockLine
  \/ BlockExhausted

SpecSection == InitSection /\ [][NextSection]_vars

--------------------------------------------------------------------------
(* The wormhole pairing on its own *)

InitPairing == PairingInit /\ HierIdle /\ ExtractIdle /\ SectionIdle /\ MegaIdle /\ SaveIdle /\ ResolveIdle
  /\ FilterIdle /\ BeltsIdle /\ MapIdle /\ FindIdle

NextPairing == BuildBypassMap \/ PairBypass \/ PairingDone

SpecPairing == InitPairing /\ [][NextPairing]_vars

--------------------------------------------------------------------------
(* The hierarchy builder followed by main's megastructure loop and the    *)
(* grouping write_initializer_file starts with                            *)

InitMega == MegaInit /\ ExtractIdle /\ SectionIdle /\ PairingIdle /\ SaveIdle /\ ResolveIdle
  /\ FilterIdle /\ BeltsIdle /\ MapIdle /\ FindIdle

NextMega == BuildStar \/ AttachMega \/ AttachDone \/ GroupFreeMegas

SpecMega == InitMega /\ [][NextMega]_vars

--------------------------------------------------------------------------
(* The loop over the gamestate file with the section scanner it calls *)

InitSave == SaveInit /\ HierIdle /\ ExtractIdle /\ PairingIdle /\ MegaIdle /\ ResolveIdle
  /\ FilterIdle /\ BeltsIdle /\ MapIdle /\ FindIdle

NextSave ==
  \/ SaveLine
  \/ EnterSection
  \/ LeaveSection
  \/ SaveEnd
  \/ SectionExhausted
  \/ SectionEnd
  \/ SkipLine
  \/ SkipAbsentSlot
  \/ SingleLineRecord
  \/ StartBlock
  \/ BlockLine
  \/ BlockExhausted

SpecSave == InitSave /\ [][NextSave]_vars

--------------------------------------------------------------------------
(* build_galaxy_hierarchy with names *)

InitNames ==
  NamesInit /\ ExtractIdle /\ SectionIdle /\ PairingIdle /\ MegaIdle /\ SaveIdle /\ ResolveIdle
  /\ FilterIdle /\ BeltsIdle /\ MapIdle /\ FindIdle

NextNames == BuildStar

SpecNames == InitNames /\ [][NextNames]_vars

--------------------------------------------------------------------------
(* The megastructure list *)

InitFilter ==
  FilterInit /\ HierIdle /\ ExtractIdle /\ SectionIdle /\ PairingIdle /\ MegaIdle /\ SaveIdle
    /\ ResolveIdle /\ BeltsIdle /\ MapIdle /\ FindIdle

NextFilter == FilterMegas

SpecFilter == InitFilter /\ [][NextFilter]_vars

--------------------------------------------------------------------------
(* The asteroid belts of one block *)

InitBelts ==
  BeltsInit /\ HierIdle /\ ExtractIdle /\ SectionIdle /\ PairingIdle /\ MegaIdle /\ SaveIdle
    /\ ResolveIdle /\ FilterIdle /\ MapIdle /\ FindIdle

NextBelts == ParseBelts

SpecBelts == InitBelts /\ [][NextBelts]_vars

--------------------------------------------------------------------------
(* The host of one megastructure *)

InitFind ==
  FindInit /\ HierIdle /\ ExtractIdle /\ SectionIdle /\ PairingIdle /\ MegaIdle /\ SaveIdle
    /\ ResolveIdle /\ FilterIdle /\ BeltsIdle /\ MapIdle

NextFind == TestMega \/ FindStep \/ FindNone \/ AttachToHost

SpecFind == InitFind /\ [][NextFind]_vars

--------------------------------------------------------------------------
(* The wormhole flags of the map file *)

InitMap ==
  MapInit /\ HierIdle /\ ExtractIdle /\ SectionIdle /\ MegaIdle /\ SaveIdle
    /\ ResolveIdle /\ FilterIdle /\ BeltsIdle /\ FindIdle

NextMap == SetPairFlags \/ FlagsDone

SpecMap == InitMap /\ [][NextMap]_vars

--------------------------------------------------------------------------
(* The section scanner on line streams of any composition *)

InitScan ==
  ScanInit /\ HierIdle /\ ExtractIdle /\ PairingIdle /\ MegaIdle /\ SaveIdle /\ ResolveIdle
    /\ FilterIdle /\ BeltsIdle /\ MapIdle /\ FindIdle

SpecScan == InitScan /\ [][NextSection]_vars

--------------------------------------------------------------------------
(* The name resolver on its own, one call or return at a time *)

InitResolve ==
  ResolveInit /\ HierIdle /\ ExtractIdle /\ SectionIdle /\ PairingIdle /\ MegaIdle /\ SaveIdle
  /\ FilterIdle /\ BeltsIdle /\ MapIdle /\ FindIdle

NextResolve == ResolveCall \/ ResolveReturn \/ ResolveDone

SpecResolve == InitResolve /\ [][NextResolve]_vars

--------------------------------------------------------------------------
(* Properties of the block extractor, stated on the text itself *)

Count(q, c) == Cardinality({i \in 1..Len(q) : q[i] = c})

\* the offsets at or after start_index at which the pattern occurs
MatchOffsets ==
  {m \in start_index..Len(text) :
     /\ m + Len(start_regex) <= Len(text)
     /\ \A n \in 1..Len(start_regex) : text[m + n] = start_regex[n]}

Least(S) == CHOOSE m \in S : \A n \in S : m <= n

\* the offsets of the opening braces at or after offset m
OpenOffsets(m) == {j \in m..(Len(text) - 1) : text[j + 1] = "{"}

\* the offsets after the opening brace at offset o at which as many braces
\* have been closed as opened, the one at o included
ClosingOffsets(o) ==
  {j \in (o + 1)..(Len(text) - 1) :
     Count(SubSeq(text, o + 1, j + 1), "{") = Count(SubSeq(text, o + 1, j + 1), "}")}

\* C7: returned content is the text strictly between the first opening
\* brace at or after the pattern match and the closing brace that brings
\* the depth back to zero; it is balanced, no prefix of it closes more than
\* it opens, text[spanEnd - 1] is that closing brace and spanStart is the
\* offset of the match in the whole text
C7_ContentIsEnclosedBlock ==
  (xpc = "done" /\ ret.found) =>
    /\ MatchOffsets # {}
    /\ ret.span_start = Least(MatchOffsets)
    /\ OpenOffsets(ret.span_start) # {}
    /\ LET o == Least(OpenOffsets(ret.span_start))
       IN  /\ ClosingOffsets(o) # {}
           /\ ret.span_end - 1 = Least(ClosingOffsets(o))
           /\ text[ret.span_end] = "}"
           /\ ret.content = SubSeq(text, o + 2, ret.span_end - 1)
    /\ Count(ret.content, "{") = Count(ret.content, "}")
    /\ \A n \in 0..Len(ret.content) :
         Count(SubSeq(ret.content, 1, n), "}") <= Count(SubSeq(ret.content, 1, n), "{")

\* a call with start_index > 0 that skips an earlier match and returns a
\* block with a nested block in it
C7_Witness ==
  /\ xpc = "done"
  /\ ret.found
  /\ start_index > 0
  /\ ret.span_start >= start_index
  /\ \E m \in 0..(start_index - 1) : text[m + 1] = "k"
  /\ Count(ret.content, "{") > 0

\* C8: the result is NotFound, (None, -1, -1), when the pattern does not
\* occur at or after start_index and when the opening brace selected has
\* no matching closing brace before the end of the text; content is never
\* returned in these cases
C8_NotFoundWhenAbsentOrUnclosed ==
  xpc = "done" =>
    /\ MatchOffsets = {} => ret = NotFound
    /\ (MatchOffsets # {} /\ OpenOffsets(Least(MatchOffsets)) = {}) => ret = NotFound
    /\ (MatchOffsets # {} /\ OpenOffsets(Least(MatchOffsets)) # {}
          /\ ClosingOffsets(Least(OpenOffsets(Least(MatchOffsets)))) = {})
         => ret = NotFound
    /\ ~ret.found => ret = NotFound

\* the pattern is found and a block is opened and partly closed, but the
\* selected opening brace stays open to the end of the text
C8_Witness ==
  /\ xpc = "done"
  /\ MatchOffsets # {}
  /\ OpenOffsets(Least(MatchOffsets)) # {}
  /\ LET o == Least(OpenOffsets(Least(MatchOffsets)))
     IN  /\ ClosingOffsets(o) = {}
         /\ \E j \in (o + 1)..(Len(text) - 1) : text[j + 1] = "}"
  /\ ret = NotFound

--------------------------------------------------------------------------
(* Properties of the section scanner, stated on the way the section was  *)
(* composed                                                              *)

Returned == spc \in {"done", "exhausted"}

StoredIds == {i \in DOMAIN objects : objects[i].present}

C11_AbsentRecordSkippedWhole ==
  LET body == Flatten(layout.items)
  IN  (Returned /\ ~layout.cut) =>
        /\ \A k \in SlotItems(layout.items) : layout.items[k].id \notin StoredIds
        /\ \A k \in RecordItems(layout.items) :
             /\ layout.items[k].id \in StoredIds
             /\ objects[layout.items[k].id].block = layout.items[k].lines
        /\ layout.closed => (spc = "done" /\ pos = Len(body) + 1)

--------------------------------------------------------------------------
(* Properties of the wormhole pairing *)

RECURSIVE Reverse(_)
Reverse(q) == IF q = <<>> THEN <<>> ELSE Append(Reverse(Tail(q)), Head(q))

NoPairs == [pairs |-> <<>>, processed |-> {}, ends |-> <<>>]

\* the dict holds two wormhole bypasses, linked to each other, anchored to
\* two different systems
MutualPair ==
  /\ Len(bypasses) = 2
  /\ \A k \in 1..2 : bypasses[k].type = "wormhole"
  /\ bypasses[1].linked_to = bypasses[2].id
  /\ bypasses[2].linked_to = bypasses[1].id
  /\ bypass_to_system_map[bypasses[1].id] # NoSystem
  /\ bypass_to_system_map[bypasses[2].id] # NoSystem
  /\ bypass_to_system_map[bypasses[1].id] # bypass_to_system_map[bypasses[2].id]

\* C12: two wormhole bypasses linked to each other and anchored to two
\* different systems give exactly one pair, the two system ids in sorted
\* order, and the loop over the same dict in reverse order gives the same
\* list of pairs
C12_MutualPairOnceBothOrders ==
  (ppc = "done" /\ MutualPair) =>
    /\ Len(wormhole_pairs) = 1
    /\ {wormhole_pairs[1][1], wormhole_pairs[1][2]}
         = {bypass_to_system_map[bypasses[1].id], bypass_to_system_map[bypasses[2].id]}
    /\ ~StrLess(wormhole_pairs[1][2], wormhole_pairs[1][1])
    /\ PairAll(bypass_to_system_map, NoPairs, Reverse(bypasses)).pairs = wormhole_pairs

\* the pair of a mutual link whose first bypass is anchored to the system
\* that sorts second
C12_Witness ==
  /\ ppc = "done"
  /\ MutualPair
  /\ StrLess(bypass_to_system_map[bypasses[2].id], bypass_to_system_map[bypasses[1].id])
  /\ Len(wormhole_pairs) = 1

\* C13: the list of pairs holds no tuple twice, and no bypass id is an end
\* of more than one pair
C13_EachBypassInOnePair ==
  /\ \A i, j \in 1..Len(wormhole_pairs) : i # j => wormhole_pairs[i] # wormhole_pairs[j]
  /\ \A i, j \in 1..Len(pair_ends) :
       i # j => {pair_ends[i][1], pair_ends[i][2]} \cap {pair_ends[j][1], pair_ends[j][2]} = {}

--------------------------------------------------------------------------
(* Properties of the megastructure handling *)

\* the megastructures whose host reference is set, whose system was built
\* and whose host is not in the hierarchy of that system
Homeless ==
  {k \in 1..Len(parsed_megastructures) :
     /\ HasHost(parsed_megastructures[k])
     /\ parsed_megastructures[k].origin \in StarIds
     /\ ~HostInTree(planets, centers, parsed_megastructures[k])}

\* C14: a megastructure whose host reference is set but names no body of
\* its system's hierarchy is written with the free-floating megastructures of
\* its system, is not among the planet-bound ones, and a diagnostic is
\* printed for it
C14_HomelessMegaIsFreeFloating ==
  mpc = "done" =>
    \A k \in Homeless :
      /\ k \in Range(megastructures_by_system[parsed_megastructures[k].origin])
      /\ k \notin Range(planet_bound_megas)
      /\ [kind |-> "no host", mega |-> k] \in Range(mega_output)


--------------------------------------------------------------------------
(* Properties of the loop over the gamestate file *)

Ended == gpc \in {"returned", "aborted"}

\* the first section of the file is well formed and the file holds all of it
FirstSectionWhole ==
  /\ file.sections[1].variant = "normal"
  /\ Len(file.sections[1].lines) <= file.length

\* C15: whatever is wrong with a section marker and wherever the file ends,
\* the run is not abandoned, and the map of a section that was scanned
\* completely before that is returned
C15_BrokenSectionAloneIsLost ==
  Ended =>
    /\ gpc = "returned"
    /\ FirstSectionWhole =>
         {i \in DOMAIN EmptyMap : save_result[file.sections[1].marker][i].present}
           = file.sections[1].ids

--------------------------------------------------------------------------
(* Properties of the name resolver *)

\* C16 as stated: whenever the key of the template is a key of the table,
\* the table value is returned, whatever else the template holds
C16_TableValueForEveryTemplate ==
  (rpc = "done" /\ NameKey(template) \in DOMAIN loc_data) =>
    resolved = loc_data[NameKey(template)]

\* C16 amended: the table value of the key (without the '$' around it) is
\* returned unless the habitat name is synthesized or the key is one of the
\* expanded families and the template has a variables block that is not
\* empty
C16_TableValueUnlessExpanded ==
  (/\ rpc = "done"
   /\ StripDollars(NameKey(template)) \in DOMAIN loc_data
   /\ HabitatName(template, loc_data) = <<>>
   /\ Family(template) = "none") =>
    resolved = loc_data[StripDollars(NameKey(template))]

\* a key of the table in a template with a variables block: a format key
\* that is not expanded
C16_Witness ==
  /\ rpc = "done"
  /\ NameKey(template) = "HABITAT_NAME_FORMAT"
  /\ Truthy(VariablesContent(template))
  /\ NameKey(template) \in DOMAIN loc_data
  /\ resolved = loc_data[NameKey(template)]

\* C17: for a template STAR_NAME_k_OF_n whose NAME variable resolves to B,
\* the result is B, a space and the letter A, B or C for k = 1, 2, 3 when the
\* star count is above 1, and B itself when the count is 1, is not given, or
\* k is not in 1..3; STAR_NAME_1_OF_2 with count 2 over Sol gives Sol A and
\* STAR_NAME_2_OF_2 gives Sol B
C17_StarNameLetter ==
  (rpc = "done" /\ NameKey(template) \in StarKeys /\ Truthy(NestedValue(template, "NAME"))) =>
    LET B == ResolveName(NestedValue(template, "NAME").content, loc_data,
                         star_count_context, NoName)
        k == StarOrdinal(NameKey(template))
    IN  /\ (star_count_context > 1 /\ k = 1) => resolved = B \o <<" ", "A">>
        /\ (star_count_context > 1 /\ k = 2) => resolved = B \o <<" ", "B">>
        /\ (star_count_context > 1 /\ k = 3) => resolved = B \o <<" ", "C">>
        /\ (star_count_context <= 1 \/ k \notin 1..3) => resolved = B
        /\ (loc_data = <<>> /\ star_count_context = 2
              /\ NestedValue(template, "NAME").content = Leaf("Sol")) =>
             /\ k = 1 => resolved = <<"Sol", " ", "A">>
             /\ k = 2 => resolved = <<"Sol", " ", "B">>

\* STAR_NAME_2_OF_2 over Sol with star count 2 has given Sol B
C17_Witness ==
  /\ rpc = "done"
  /\ template = WithVariables("STAR_NAME_2_OF_2", Entry("NAME", Leaf("Sol")))
  /\ star_count_context = 2
  /\ loc_data = <<>>
  /\ resolved = <<"Sol", " ", "B">>

\* C19: for a SUBPLANET_NAME_FORMAT template with a PARENT that resolves
\* to base and at least one NUMERAL, the last NUMERAL is used; the result is
\* base when a parent display name is given and differs from base; otherwise
\* base, a space and the numeral when the numeral is longer than one
\* character or is I, V or X, and base followed by the lower-cased numeral
\* for every other numeral, the lower-case i, v, x among them
C19_MoonNumeral ==
  (/\ rpc = "done"
   /\ NameKey(template) = "SUBPLANET_NAME_FORMAT"
   /\ Truthy(NestedValue(template, "PARENT"))
   /\ NumeralMatches(VariablesContent(template).content, 0) # <<>>) =>
    LET base    == ResolveName(NestedValue(template, "PARENT").content, loc_data,
                               star_count_context, NoName)
        numeral == Last(NumeralMatches(VariablesContent(template).content, 0))
    IN  resolved = IF parent_body_name # NoName /\ base # parent_body_name THEN base
                   ELSE IF IsUpperRoman(numeral) THEN base \o <<" ", numeral>>
                   ELSE base \o <<Lower(numeral)>>

\* the texts of the calls in progress get shorter from each call to the
\* one it made
CalleeShorter == \A d \in 1..(Len(frames) - 1) : Len(frames[d + 1]) < Len(frames[d])

\* the blocks a template of an expanded family needs are missing or empty
ExtractionFails(t) ==
  \/ Family(t) \in {"star", "colony"} /\ ~Truthy(NestedValue(t, "NAME"))
  \/ Family(t) = "planet"
       /\ ~(Truthy(NestedValue(t, "PARENT")) /\ Truthy(NestedValue(t, "NUMERAL")))
  \/ Family(t) = "moon"
       /\ ~(Truthy(NestedValue(t, "PARENT"))
            /\ NumeralMatches(VariablesContent(t).content, 0) # <<>>)

Fallbacks ==
  {<<"Unknown", " ", "Star">>, <<"Unknown", " ", "Planet">>, <<"Unknown", " ", "Moon">>}

\* a natural number that is 0 once the outermost call has returned
Variant ==
  CASE rpc = "call"   -> 1 + 2 * Len(frames[Len(frames)]) + Len(frames)
    [] rpc = "return" -> Len(frames)
    [] OTHER          -> 0

\* a call that has not returned can take its next step
CanStep == rpc \in {"call", "return"} /\ frames # <<>>

\* C20: every call of resolve_name comes to its end with a string and
\* never with an error: each recursive call is on a text shorter than its
\* caller's, also when a key is nested in a block of the same key, so that
\* every step lowers a natural number and a step is possible until the
\* outermost call has returned; a template whose sub-block cannot be
\* extracted gives a fallback string
C20_ResolveTerminates ==
  /\ [](CalleeShorter /\ Variant >= 0 /\ (rpc \notin {"done", "error"} => CanStep))
  /\ [][Variant' < Variant]_vars
  /\ []((rpc = "done" /\ HabitatName(template, loc_data) = <<>> /\ ExtractionFails(template))
          => resolved \in Fallbacks)
  /\ [](rpc # "error")

\* what holds of every call, the error left aside
C20_ShorterUntilReturnOrError ==
  /\ [](CalleeShorter /\ Variant >= 0 /\ (rpc \notin {"done", "error"} => CanStep))
  /\ [][Variant' < Variant]_vars
  /\ []((rpc = "done" /\ HabitatName(template, loc_data) = <<>> /\ ExtractionFails(template))
          => resolved \in Fallbacks)

--------------------------------------------------------------------------
(* Properties of the names build_galaxy_hierarchy gives *)

\* the 'name' of the dict a parent reference points to
ParentNameOf(b) ==
  IF planets[b].parent.kind = "body" THEN names.body[planets[b].parent.id]
  ELSE IF planets[b].parent.kind = "center" THEN CenterName ELSE NoName

\* the number of star-class bodies of the system of star s
StarsIn(s) == Cardinality({b \in BodyMapOf(s) : IsStarClass(planet_class[b])})

\* the bodies of the system have the names resolve_name gives with the
\* star count of the system
BodiesNamedWithStarCount(s) ==
  \A b \in BodyMapOf(s) :
    raw_name_block.body[b] # NoBlock =>
      names.body[b] = ResolveName(raw_name_block.body[b], loc_data, StarsIn(s),
                                  ParentNameOf(b))

\* C18: when build_galaxy_hierarchy has processed a star, every name of
\* its system was resolved with the number of star-class bodies of the
\* system as star count: the names of the bodies and the name of the
\* system itself, so that STAR_NAME_1_OF_2 on the record of a system with
\* two stars has its letter
C18_StarCountInEveryCall ==
  \A s \in StarIds :
    JustBuilt(s) =>
      /\ BodiesNamedWithStarCount(s)
      /\ raw_name_block.system[s] # NoBlock =>
           names.system[s] = ResolveName(raw_name_block.system[s], loc_data, StarsIn(s),
                                         NoName)

\* what holds: the star count is passed to the calls for the bodies
C18_StarCountInBodyCalls ==
  \A s \in StarIds : JustBuilt(s) => BodiesNamedWithStarCount(s)

\* a system of two stars whose record has STAR_NAME_1_OF_2 over Sol and
\* whose first star has the same template
C18_TwoStarSystem ==
  /\ JustBuilt(1)
  /\ StarsIn(1) = 2
  /\ raw_name_block.system[1] = Deep(1)
  /\ names.body[1] = <<"Sol", " ", "A">>
  /\ names.system[1] = <<"Sol">>

\* C21: build_galaxy_hierarchy never aborts: whatever the coordinate texts
\* of the bodies, no exception leaves it, and once the loop over the stars
\* has ended every system was built and is returned
C21_BuildNeverAborts ==
  /\ hpc # "raised"
  /\ star_pos \notin StarIds => Range(hierarchical_systems) = StarIds

\* what holds: the systems before the one with the body whose coordinate
\* is no number were built, and that system and those after it were not
C21_AbortedAtBadCoordinate ==
  hpc = "raised" =>
    /\ FirstBadCoordinate(BodyMapOrder(stars[star_pos], {})) # 0
    /\ Range(hierarchical_systems) = {s \in StarIds : s < star_pos}

--------------------------------------------------------------------------
(* More properties of the wormhole pairs *)

\* C27: every pair links two different systems, also when a bypass is
\* linked to itself or both bypasses are anchored in the same system
C27_PairsLinkDistinctSystems ==
  \A i \in 1..Len(wormhole_pairs) : wormhole_pairs[i][1] # wormhole_pairs[i][2]

\* what holds: a pair of one system twice comes only from a bypass linked
\* to itself or from two bypasses anchored in the same system
C27_SameSystemPairsOnlyFromSameAnchor ==
  \A i \in 1..Len(wormhole_pairs) :
    wormhole_pairs[i][1] = wormhole_pairs[i][2] =>
      \/ pair_ends[i][1] = pair_ends[i][2]
      \/ bypass_to_system_map[pair_ends[i][1]] = bypass_to_system_map[pair_ends[i][2]]

--------------------------------------------------------------------------
(* Properties of the megastructure list *)

\* the places of the scanned records with a type and an origin that is not
\* the sentinel
PlacedAt ==
  {i \in 1..Len(megastructures_raw) :
     /\ megastructures_raw[i].type # NoType
     /\ megastructures_raw[i].origin \notin {NoOrigin, Sentinel}}

\* the n-th place of a set of places
NthOf(S, n) == CHOOSE i \in S : Cardinality({k \in S : k <= i}) = n

\* C22: the returned list holds exactly the scanned records with a type
\* and an origin other than the sentinel, in the order of the scan; no
\* record of the list has a missing or sentinel origin; the megastructure
\* count is the length of the list
C22_ListIsPlacedRecords ==
  fpc = "done" =>
    /\ Len(parsed_megastructures) = Cardinality(PlacedAt)
    /\ \A n \in 1..Len(parsed_megastructures) :
         /\ parsed_megastructures[n] = megastructures_raw[NthOf(PlacedAt, n)]
         /\ parsed_megastructures[n].origin \notin {NoOrigin, Sentinel}
    /\ counts.megastructure = Len(parsed_megastructures)

\* a record with the sentinel origin, one without origin and one placed
\* were scanned, and the list holds the placed one alone
C22_Witness ==
  /\ fpc = "done"
  /\ \E i, j, k \in 1..Len(megastructures_raw) :
       /\ megastructures_raw[i].type # NoType /\ megastructures_raw[i].origin = Sentinel
       /\ megastructures_raw[j].type # NoType /\ megastructures_raw[j].origin = NoOrigin
       /\ k \in PlacedAt
  /\ Len(parsed_megastructures) = 1
  /\ counts.megastructure = 1

--------------------------------------------------------------------------
(* Properties of the asteroid belts *)

\* the places of the occurrences of a key with a text
OccurrencesOf(key) ==
  {i \in 1..Len(belt_block_content) :
     belt_block_content[i].key = key /\ belt_block_content[i].value # ""}

\* C23: the i-th descriptor pairs the i-th type occurrence with the i-th
\* radius occurrence, and there are exactly min(#types, #radii) descriptors,
\* in occurrence order, whether or not the two counts are equal
C23_BeltsPairedInOrder ==
  bpc = "done" =>
    LET types == OccurrencesOf("type")
        radii == OccurrencesOf("inner_radius")
    IN /\ Len(belts_data) = Min(Cardinality(types), Cardinality(radii))
       /\ \A i \in 1..Len(belts_data) :
            /\ belts_data[i].type = belt_block_content[NthOf(types, i)].value
            /\ belts_data[i].radius = belt_block_content[NthOf(radii, i)].value

\* Scenario E: 3 type occurrences and 2 different radius occurrences give
\* 2 descriptors
C23_Witness ==
  /\ bpc = "done"
  /\ Cardinality(OccurrencesOf("type")) = 3
  /\ Cardinality(OccurrencesOf("inner_radius")) = 2
  /\ Len(belts_data) = 2
  /\ belts_data[1].radius # belts_data[2].radius

--------------------------------------------------------------------------
(* The tree of a built system *)

\* following the parent links from body b reaches the center of system s
\* within n steps
RECURSIVE ClimbsToCenter(_, _, _)
ClimbsToCenter(b, s, n) ==
  /\ n > 0
  /\ \/ planets[b].parent = CenterRef(s)
     \/ /\ planets[b].parent.kind = "body"
        /\ ClimbsToCenter(planets[b].parent.id, s, n - 1)

\* the body reached from b by n moon_of references that stay in the body
\* map of system s, NoRef when one of them leaves it
RECURSIVE MoonOfAfter(_, _, _)
MoonOfAfter(b, s, n) ==
  IF n = 0 THEN b
  ELSE IF planets[b].moon_of \in BodyMapOf(s)
         THEN MoonOfAfter(planets[b].moon_of, s, n - 1)
         ELSE NoRef

\* the moon_of references from b never leave the body map: they run into a
\* cycle
OnMoonCycle(b, s) == MoonOfAfter(b, s, Cardinality(PlanetIds)) # NoRef

\* C24: after a system is built its parent links form a tree rooted at
\* the system center: from every body of the body map the parent links
\* lead to the center in finitely many steps, and every such body is
\* reached from the root through the children lists
C24_TreeRootedAtCenter ==
  \A s \in StarIds : JustBuilt(s) =>
    \A b \in BodyMapOf(s) :
      /\ ClimbsToCenter(b, s, Cardinality(PlanetIds))
      /\ b \in TreeOf(planets, centers, s)

\* what the code keeps: the bodies left outside the tree are those whose
\* moon_of references run into a cycle, and all others are in the tree
\* and climb to the center
C24_OutsideTreeOnlyOnMoonCycle ==
  \A s \in StarIds : JustBuilt(s) =>
    \A b \in BodyMapOf(s) :
      OnMoonCycle(b, s) <=>
        ~(ClimbsToCenter(b, s, Cardinality(PlanetIds)) /\ b \in TreeOf(planets, centers, s))

--------------------------------------------------------------------------
(* Properties of the host of a megastructure *)

\* C25: a megastructure is attached only to a body of the system whose id
\* is its planet reference, never to system_center, also when the
\* reference is the id 0 and a planet with the id 0 is in the system
C25_AttachedToBodyOnly ==
  \A host \in with_attached_mega :
    /\ host.kind = "body"
    /\ host.id = original_planet_id

\* what the code keeps: the host carries the id of the reference; it is
\* system_center exactly when the reference is the id 0, and then the
\* planet with the id 0 carries nothing; any other reference to a body of
\* the system is attached to that body
C25_CenterIsHostOfIdZero ==
  /\ \A host \in with_attached_mega : host.id = original_planet_id
  /\ apc = "done" /\ original_planet_id = CenterId => with_attached_mega = {SystemCenter}
  /\ apc = "done" /\ original_planet_id # CenterId
       /\ BodyRef(original_planet_id) \in DOMAIN children_of
       => with_attached_mega = {BodyRef(original_planet_id)}
  /\ SystemCenter \in with_attached_mega => original_planet_id = CenterId

--------------------------------------------------------------------------
(* Properties of the attached megastructures *)

\* the planet-bound megastructures whose host was found: no warning was
\* printed for them
HostFound ==
  {k \in Range(planet_bound_megas) :
     [kind |-> "no host", mega |-> k] \notin Range(mega_output)}

\* C26: after all megastructures have been processed every megastructure
\* whose host was found is still attached to that host, and the number of
\* attached megastructures is the number of planet-bound megastructures
\* with a found host
C26_FoundHostKeepsMega ==
  mpc = "done" =>
    /\ \A k \in HostFound : attached_mega[parsed_megastructures[k].planet] = k
    /\ Cardinality({p \in PlanetIds : attached_mega[p] # 0}) = Cardinality(HostFound)

\* what the code keeps: a host carries the last of the megastructures that
\* found it, and a planet no megastructure found carries none
C26_HostKeepsLastMega ==
  mpc = "done" =>
    \A p \in PlanetIds :
      LET finders == {k \in HostFound : parsed_megastructures[k].planet = p}
      IN  IF finders = {} THEN attached_mega[p] = 0
          ELSE /\ attached_mega[p] \in finders
               /\ \A k \in finders : k <= attached_mega[p]

--------------------------------------------------------------------------
(* Properties of the wormhole flags *)

\* the system carries the flag in the map file
Carries(system, flag) ==
  /\ system \in DOMAIN wormhole_flags_by_system
  /\ wormhole_flags_by_system[system] = flag

\* C28: for every wormhole pair with index i both systems of the pair
\* carry the flag continuum_wormhole_i, whatever the pair list
C28_BothSystemsCarryPairFlag ==
  kpc = "done" =>
    \A n \in 1..Len(wormhole_pairs) :
      /\ Carries(wormhole_pairs[n][1], FlagOf(n - 1))
      /\ Carries(wormhole_pairs[n][2], FlagOf(n - 1))

\* what the code keeps: a system of some pair carries the flag of the last
\* pair it is in, and a system of no pair carries none
C28_SystemCarriesLastPairFlag ==
  kpc = "done" =>
    \A system \in MapSystemIds :
      LET of == {n \in 1..Len(wormhole_pairs) :
                   system \in {wormhole_pairs[n][1], wormhole_pairs[n][2]}}
      IN  IF of = {} THEN system \notin DOMAIN wormhole_flags_by_system
          ELSE \E n \in of : /\ \A k \in of : k <= n
                              /\ Carries(system, FlagOf(n - 1))

--------------------------------------------------------------------------
(* Properties of the scanner on line streams of any composition *)

\* the brace depth after line k, counted from line from on
DepthFrom(from, k) == Depth(SubSeq(lines, from, Len(lines)), k - from + 1)

\* the last line of the body of the record whose header is line from: the
\* header itself when it holds the whole record, else the first line after
\* it at which the depth is <= 0, or the last line of the stream when the
\* depth stays above 0
BodyEnd(from) ==
  IF IsSingleLine(lines[from]) THEN from
  ELSE LET closing == {k \in (from + 1)..Len(lines) : DepthFrom(from, k) <= 0}
       IN  IF closing = {} THEN Len(lines)
           ELSE CHOOSE k \in closing : \A j \in closing : k <= j

\* the lines read so far that are in the body of no stored record and not
\* in the record being read
Examined ==
  {k \in 1..(IF spc = "inner" THEN pos - Len(block_lines) ELSE pos) :
     \A i \in 1..Len(spans) : k < spans[i].from \/ k > spans[i].to}

\* C29: every line is in the body of at most one record; the body of a
\* record runs from its header line through the first line at which the
\* depth is <= 0; a line inside a body that matches the header pattern
\* makes no entry of its own; and the line after a body is the next one
\* examined as a header or as the end of the section
C29_BodiesDisjointAndClosedAtDepthZero ==
  /\ \A i, j \in 1..Len(spans) : i < j => spans[i].to < spans[j].from
  /\ \A i \in 1..Len(spans) :
       /\ IsHeader(lines[spans[i].from])
       /\ ~IsAbsentSlot(lines[spans[i].from])
       /\ spans[i].id = lines[spans[i].from].hdr
       /\ spans[i].to = BodyEnd(spans[i].from)
       /\ spans[i].to <= pos
  /\ StoredIds = {spans[i].id : i \in 1..Len(spans)}
  /\ \A i \in 1..Len(spans) :
       (\A j \in (i + 1)..Len(spans) : spans[j].id # spans[i].id) =>
         objects[spans[i].id].block = SubSeq(lines, spans[i].from, spans[i].to)
  /\ \A k \in Examined :
       /\ ~(IsHeader(lines[k]) /\ ~IsAbsentSlot(lines[k]) /\ ~IsSectionEnd(lines[k]))
       /\ IsSectionEnd(lines[k]) => (spc = "done" /\ k = pos)
  /\ spc = "inner" =>
       /\ block_lines = SubSeq(lines, pos + 1 - Len(block_lines), pos)
       /\ IsHeader(block_lines[1])
       /\ \A i \in 1..Len(spans) : spans[i].to < pos + 1 - Len(block_lines)

\* a record was read whose body holds a line that matches the header
\* pattern with another id; that id has no entry, and the line after the
\* body started the next record
C29_Witness ==
  \E i, j \in 1..Len(spans) :
    /\ spans[j].from = spans[i].to + 1
    /\ \E k \in (spans[i].from + 1)..spans[i].to :
         /\ IsHeader(lines[k])
         /\ ~IsAbsentSlot(lines[k])
         /\ lines[k].hdr # spans[i].id
         /\ lines[k].hdr \notin StoredIds

==========
